---- MODULE Spec2Model ----
(***************************************************************************)
(* Model of the exchange declaration registry (Exchanges), its connect()   *)
(* sequence and the Publisher it produces, and of the Influx drain and the *)
(* response and handler timers of stats.js.                                *)
(*                                                                         *)
(* Representation of JavaScript values:                                    *)
(*  - strings that the code concatenates or measures (schema, exchange,    *)
(*    prefixes, constants, routing-key words) are tuples of one-character  *)
(*    strings, so that + is \o and .length is Len;                         *)
(*  - strings that are only compared (name, title, summary, ...) are TLA+  *)
(*    strings;                                                             *)
(*  - NotAString / NotAStringT stand for any value whose typeof is not     *)
(*    'string'; JsNull is the value null;                                  *)
(*  - multipleWords / required are "true", "false" or "undefined" before   *)
(*    declare() normalises them;                                           *)
(*  - maxSize 0 stands for an absent maxSize as well as for the number 0   *)
(*    (both are falsy and both fail `> 0`).                                *)
(***************************************************************************)
EXTENDS Integers, Sequences, FiniteSets, TLC

VARIABLES
    heap,        \* the declaration objects that exist: object id -> value
    entries,     \* Exchanges._entries: sequence of object ids
    options,     \* Exchanges._options
    arg,         \* input of the pure-function specifications
    last,        \* outcome of the last call made on the registry
    document,    \* what the last call returned, when it was reference()
    pc,          \* where the connect() promise chain stands
    pubEntries,  \* `entries` of connect(): ids of the cloned declarations
    pubPrefix,   \* `exchangePrefix` of connect()
    drain,       \* connect() was given a drain: the Publisher has a _reporter
    asserts,     \* the assertExchange calls made: name and state
    connection,  \* the broker connection: "none", "open", "closed"
    channel,     \* the confirm channel: "none", "open", "dead"
    emitted,     \* number of 'error' events the Publisher has emitted
    calls,       \* the publish method calls made so far
    published,   \* the channel.publish invocations made so far
    reports,     \* the points handed to Publisher._reporter so far
    influxOptions,   \* Influx._options
    pendingPoints,   \* Influx._pendingPoints: series -> points buffered
    nbPendingPoints, \* Influx._nbPendingPoints
    flushTimeout,    \* Influx._flushTimeout: a timer handle, or NullTimer
    timers,          \* the timers set and neither cleared nor fired yet
    handles,         \* number of setTimeout calls made so far
    points,          \* number of addPoint calls made so far
    flushes,         \* the flush calls made so far
    responses,       \* createResponseTimer: the requests the middleware saw
    responsePoints,  \* the calls of its reporter
    escaped,         \* number of errors that got out of its send()
    handled,         \* createHandlerTimer: the calls of the wrapped handler
    handlerPoints    \* the points handed to its reporter

----------------------------------------------------------------------------
(* Bounds *)

MaxFields == 2      \* routing-key fields per generated declaration
MaxObjects == 2     \* declaration objects the caller creates
MaxLifeObjects == 1 \* the same, in the life-cycle specification
MaxSchema == 3      \* length up to which a schema is prefixed again
MaxCalls == 2       \* publish method calls
MaxPoints == 2      \* addPoint calls
MaxFlushes == 2     \* flush calls, whoever makes them
MaxRequests == 2    \* requests that pass through the response timer
MaxMessages == 2    \* messages given to the wrapped handler

(* Program constants *)

RoutingKeyLimit == 255

----------------------------------------------------------------------------
(* JavaScript values *)

JsNull      == "<null>"
NotAString  == "<non-string>"
NotAStringT == <<"<non-string>">>

IsString(v)  == v # NotAString /\ v # JsNull
IsStringT(v) == v # NotAStringT

\* truthiness of a multipleWords / required value
Truthy(flag) == flag = "true"

\* (x ? true : false)
ToBoolean(flag) == IF Truthy(flag) THEN "true" ELSE "false"

RECURSIVE IndexOf(_, _, _)
\* Array.prototype.indexOf with strict equality; -1 when absent, else the
\* (1-based here) position from position i on
IndexOf(seq, x, i) ==
    IF i > Len(seq) THEN -1
    ELSE IF seq[i] = x THEN i
    ELSE IndexOf(seq, x, i + 1)

----------------------------------------------------------------------------
(* Exchanges.prototype.declare *)

\* The five properties that must be strings, in the order they are checked
StringProperties == <<"exchange", "name", "title", "description", "schema">>

PropertyIsString(obj, key) ==
    CASE key = "exchange"    -> IsStringT(obj.exchange)
      [] key = "name"        -> IsString(obj.name)
      [] key = "title"       -> IsString(obj.title)
      [] key = "description" -> IsString(obj.description)
      [] key = "schema"      -> IsStringT(obj.schema)

RECURSIVE FirstNonString(_, _)
\* position in StringProperties of the first property that is not a string,
\* 0 when all are
FirstNonString(obj, i) ==
    IF i > Len(StringProperties) THEN 0
    ELSE IF ~PropertyIsString(obj, StringProperties[i]) THEN i
    ELSE FirstNonString(obj, i + 1)

\* "Prefix schemas if a prefix is declared"
PrefixSchema(schemaPrefix, schema) ==
    IF schemaPrefix # <<>> THEN schemaPrefix \o schema ELSE schema

\* TakeSize without the joining dot
TakeSizeNoDot(sizeLeft, maxSize) == sizeLeft - maxSize

\* "Check size left in routingKey space": the new sizeLeft
TakeSize(sizeLeft, maxSize) ==
    (IF sizeLeft # RoutingKeyLimit THEN sizeLeft - 1 ELSE sizeLeft) - maxSize

\* the assertion on firstMultiWordKey made for a multipleWords key
NoMultiWordKeyYet(firstMultiWordKey) == firstMultiWordKey = JsNull

\* a maxSize one more than the constant's length
DefaultMaxSizePlusOne(key) ==
    IF key.maxSize = 0 THEN Len(key.constant) + 1 ELSE key.maxSize

\* "Set maxSize" of a key that has a constant
DefaultMaxSize(key) ==
    IF key.maxSize = 0 THEN Len(key.constant) ELSE key.maxSize

\* State of the forEach over options.routingKey: the local variables of
\* declare, the keys as mutated in place so far, and the assertion that
\* failed ("" while none has)
KeyLoopInit(keys) ==
    [keyNames |-> <<>>, sizeLeft |-> RoutingKeyLimit,
     firstMultiWordKey |-> JsNull, keys |-> keys, err |-> ""]

\* One iteration of the forEach, on key i
KeyLoopStep(st, i) ==
    LET key  == st.keys[i]
        st1  == [st EXCEPT !.keyNames = Append(@, key.name)]
        \* multipleWords and required forced to booleans
        k2   == [key EXCEPT !.multipleWords = ToBoolean(@),
                            !.required      = ToBoolean(@)]
        st2  == [st1 EXCEPT !.keys[i] = k2]
        st3  == IF Truthy(k2.multipleWords)
                THEN [st2 EXCEPT !.firstMultiWordKey = key.name]
                ELSE st2
        \* constant given: maxSize defaults to its length
        k4   == IF k2.constant # <<>>
                THEN [k2 EXCEPT !.maxSize = DefaultMaxSize(k2)]
                ELSE k2
        st4  == [st3 EXCEPT !.keys[i] = k4]
        st5  == [st4 EXCEPT !.sizeLeft = TakeSize(@, k4.maxSize)]
    IN
    IF IndexOf(st.keyNames, key.name, 1) # -1
        THEN [st EXCEPT !.err = "duplicate key name"]
    ELSE IF ~IsString(key.summary)
        THEN [st1 EXCEPT !.err = "summary"]
    ELSE IF Truthy(k2.multipleWords) /\ ~NoMultiWordKeyYet(st2.firstMultiWordKey)
        THEN [st2 EXCEPT !.err = "two multipleWords"]
    ELSE IF k2.constant # <<>> /\ ~IsStringT(k2.constant)
        THEN [st3 EXCEPT !.err = "constant"]
    ELSE IF ~(k4.maxSize > 0)
        THEN [st4 EXCEPT !.err = "maxSize"]
    ELSE IF ~(st5.sizeLeft >= 0)
        THEN [st5 EXCEPT !.err = "size"]
    ELSE st5

RECURSIVE KeyLoop(_, _)
\* options.routingKey.forEach(...): an assertion that fails ends the loop
KeyLoop(st, i) ==
    IF i > Len(st.keys) \/ st.err # "" THEN st
    ELSE KeyLoop(KeyLoopStep(st, i), i + 1)

RECURSIVE ExchangeUniqueAmong(_, _, _)
\* UniqueAmong without the check of `name`
ExchangeUniqueAmong(stored, obj, i) ==
    IF i > Len(stored) THEN ""
    ELSE IF stored[i].exchange = obj.exchange THEN "duplicate exchange"
    ELSE ExchangeUniqueAmong(stored, obj, i + 1)

RECURSIVE UniqueAmong(_, _, _)
\* "Check that `exchange` and `name` are unique": "" when they are, else the
\* assertion that failed on the first offending entry
UniqueAmong(stored, obj, i) ==
    IF i > Len(stored) THEN ""
    ELSE IF stored[i].exchange = obj.exchange THEN "duplicate exchange"
    ELSE IF stored[i].name = obj.name THEN "duplicate name"
    ELSE UniqueAmong(stored, obj, i + 1)

IsFunction(f) == f = "function"

\* declare(options) on the object obj, with `stored` the values of the
\* declarations in this._entries (obj itself among them, as it is on entry,
\* when the same object is declared again).  Yields the assertion that failed
\* ("" when none: the object is then pushed) and obj as mutated in place.
declare(stored, schemaPrefix, obj) ==
    LET bad  == FirstNonString(obj, 1)
        o1   == [obj EXCEPT !.schema = PrefixSchema(schemaPrefix, @)]
        loop == KeyLoop(KeyLoopInit(o1.routingKey), 1)
        o2   == [o1 EXCEPT !.routingKey = loop.keys]
        \* the uniqueness check reads exchange and name only, which declare
        \* leaves as they are: a stored object that is obj itself reads the same
        dup  == UniqueAmong(stored, o2, 1)
    IN
    IF bad # 0 THEN [err |-> StringProperties[bad], obj |-> obj]
    ELSE IF ~o1.routingKeyIsArray THEN [err |-> "routingKey", obj |-> o1]
    ELSE IF loop.err # "" THEN [err |-> loop.err, obj |-> o2]
    ELSE IF ~IsFunction(o2.messageBuilder)
        THEN [err |-> "messageBuilder", obj |-> o2]
    ELSE IF ~IsFunction(o2.routingKeyBuilder)
        THEN [err |-> "routingKeyBuilder", obj |-> o2]
    ELSE IF ~IsFunction(o2.CCBuilder) THEN [err |-> "CCBuilder", obj |-> o2]
    ELSE IF dup # "" THEN [err |-> dup, obj |-> o2]
    ELSE [err |-> "", obj |-> o2]


----------------------------------------------------------------------------
(* Exchanges: constructor, configure *)

UndefinedT == <<"<undefined>">>

\* _.defaults for one property: the first value that is not undefined
Default2(a, b) == IF a # UndefinedT THEN a ELSE b

OptionKeys ==
    {"title", "description", "exchangePrefix", "schemaPrefix",
     "connectionString", "credentials", "validator", "drain", "component",
     "process"}

\* an options object that sets nothing
NoOptions == [k \in OptionKeys |-> UndefinedT]

\* _.defaults({}, given, base)
Defaults(given, base) == [k \in OptionKeys |-> Default2(given[k], base[k])]

\* this._options as the constructor leaves it, before this.configure(options)
BuiltinOptions ==
    [NoOptions EXCEPT !.exchangePrefix = <<>>, !.schemaPrefix = <<>>]

\* the options given to new Exchanges(...)
ConstructorOptions ==
    [NoOptions EXCEPT !.title = <<"T">>, !.description = <<"D">>]

\* the values of the declarations a sequence of object ids refers to
Deref(h, ids) == [i \in 1..Len(ids) |-> h[ids[i]]]

NoCall == [op |-> "none", err |-> "", id |-> 0]

----------------------------------------------------------------------------
(* Publisher: what one publish method computes before it reaches the channel *)

\* A value found in the mapping returned by routingKeyBuilder: its typeof
\* (with "null" for null) and, for a string or a number, its text
Word(t, s) == [t |-> t, s |-> s]
UndefinedWord == Word("undefined", <<>>)

\* validator.check(message, schema): null (here <<>>) when the message
\* conforms to the schema, else the validator's non-empty list of errors
ValidatorCheck(message, schema) ==
    IF message.schema = schema THEN <<>> ELSE <<"error">> \o message.schema

\* the constant of a key, as a word
ConstantWord(key) ==
    IF IsStringT(key.constant) THEN Word("string", key.constant)
    ELSE Word("object", <<>>)

\* WordOf with '-' as the placeholder of an optional key without a value
WordOfDash(key, mapping) ==
    LET w0 == mapping[key.name]
        w1 == IF key.constant # <<>> THEN ConstantWord(key) ELSE w0
        w2 == IF ~Truthy(key.required) /\ (w1.t = "undefined" \/ w1.t = "null")
              THEN Word("string", <<"-">>)
              ELSE w1
    IN  IF w2.t = "number" THEN Word("string", w2.s) ELSE w2

\* lines 65-75: the word of one key before the assertions on it
WordOf(key, mapping) ==
    LET w0 == mapping[key.name]
        w1 == IF key.constant # <<>> THEN ConstantWord(key) ELSE w0
        w2 == IF ~Truthy(key.required) /\ (w1.t = "undefined" \/ w1.t = "null")
              THEN Word("string", <<"_">>)
              ELSE w1
    IN  IF w2.t = "number" THEN Word("string", w2.s) ELSE w2

HasDot(s) == \E i \in 1..Len(s) : s[i] = "."

\* no check of '.' at all
DotAlwaysAllowed(key, s) == TRUE

\* the '.' check of a key that is not multipleWords
DotAllowed(key, s) == Truthy(key.multipleWords) \/ ~HasDot(s)

\* WordError without the assertion on the length of the word
WordErrorNoSize(key, word) ==
    IF word.t # "string" THEN "non-string routingKey entry"
    ELSE IF ~DotAllowed(key, word.s) THEN "cannot contain '.'"
    ELSE ""

\* lines 76-85: the assertion that fails on the word of a key, "" when none
WordError(key, word) ==
    IF word.t # "string" THEN "non-string routingKey entry"
    ELSE IF ~(Len(word.s) <= key.maxSize) THEN "longer than maxSize"
    ELSE IF ~DotAllowed(key, word.s) THEN "cannot contain '.'"
    ELSE ""

RECURSIVE Join(_, _)
\* Array.prototype.join('.') of the words from position i on
Join(words, i) ==
    IF i > Len(words) THEN <<>>
    ELSE IF i = Len(words) THEN words[i]
    ELSE words[i] \o <<".">> \o Join(words, i + 1)

RECURSIVE FirstWordError(_, _, _)
\* the first assertion that fails while mapping over entry.routingKey
FirstWordError(keys, mapping, i) ==
    IF i > Len(keys) THEN ""
    ELSE LET e == WordError(keys[i], WordOf(keys[i], mapping))
         IN  IF e # "" THEN e ELSE FirstWordError(keys, mapping, i + 1)

\* EncodeRoutingKey with the '.' check made on a string too: a string that
\* holds '.' is refused unless some key is multipleWords
EncodeRoutingKeyDotChecked(keys, routingKey) ==
    IF /\ routingKey.t = "string"
       /\ HasDot(routingKey.s)
       /\ \A i \in 1..Len(keys) : ~Truthy(keys[i].multipleWords)
        THEN [err |-> "cannot contain '.'", key |-> <<>>]
    ELSE IF routingKey.t = "string" THEN [err |-> "", key |-> routingKey.s]
    ELSE IF routingKey.t = "undefined" /\ Len(keys) > 0
        THEN [err |-> "TypeError", key |-> <<>>]
    ELSE LET e == FirstWordError(keys, routingKey.m, 1)
         IN  IF e # "" THEN [err |-> e, key |-> <<>>]
             ELSE [err |-> "",
                   key |-> Join([i \in 1..Len(keys) |->
                                    WordOf(keys[i], routingKey.m).s], 1)]

\* "Convert routingKey to string if needed": [err, key]
EncodeRoutingKey(keys, routingKey) ==
    IF routingKey.t = "string" THEN [err |-> "", key |-> routingKey.s]
    ELSE IF routingKey.t = "undefined" /\ Len(keys) > 0
        THEN [err |-> "TypeError", key |-> <<>>]
    ELSE LET e == FirstWordError(keys, routingKey.m, 1)
         IN  IF e # "" THEN [err |-> e, key |-> <<>>]
             ELSE [err |-> "",
                   key |-> Join([i \in 1..Len(keys) |->
                                    WordOf(keys[i], routingKey.m).s], 1)]

\* CCs instanceof Array: a CCBuilder result is a sequence of keys, or NotAnArray
NotAnArray == << <<"<not-an-array>">> >>
IsArray(CCs) == CCs # NotAnArray

\* Prepare without the validation of the message
PrepareUnchecked(entry, exchangePrefix, message, routingKey, CCs) ==
    LET enc  == EncodeRoutingKey(entry.routingKey, routingKey)
        none == [err |-> "", errors |-> <<>>, exchange |-> <<>>,
                 routingKey |-> <<>>, payloadSize |-> 0, CCs |-> <<>>]
    IN
    IF ~IsArray(CCs) THEN [none EXCEPT !.err = "CCBuilder must return an array"]
    ELSE IF enc.err # "" THEN [none EXCEPT !.err = enc.err]
    ELSE [none EXCEPT !.exchange = exchangePrefix \o entry.exchange,
                      !.routingKey = enc.key,
                      !.payloadSize = message.size,
                      !.CCs = CCs]

\* The synchronous part of a publish method, up to `return new Promise`:
\* the error thrown ("" when none) and what is handed on to the channel
Prepare(entry, exchangePrefix, message, routingKey, CCs) ==
    LET errors == ValidatorCheck(message, entry.schema)
        enc    == EncodeRoutingKey(entry.routingKey, routingKey)
        none   == [err |-> "", errors |-> <<>>, exchange |-> <<>>,
                   routingKey |-> <<>>, payloadSize |-> 0, CCs |-> <<>>]
    IN
    IF ~IsArray(CCs) THEN [none EXCEPT !.err = "CCBuilder must return an array"]
    ELSE IF errors # <<>>
        THEN [none EXCEPT !.err = "Message validation failed", !.errors = errors]
    ELSE IF enc.err # "" THEN [none EXCEPT !.err = enc.err]
    ELSE [none EXCEPT !.exchange = exchangePrefix \o entry.exchange,
                      !.routingKey = enc.key,
                      !.payloadSize = message.size,
                      !.CCs = CCs]

----------------------------------------------------------------------------
(* Options of connect() and reference(); Exchanges.prototype.reference *)

\* truthiness of a string-valued option
TruthyT(v) == v # UndefinedT /\ v # <<>>

\* credentials are <<username, password>>; {} has neither
NoCredentials == <<UndefinedT, UndefinedT>>
Username(credentials) == credentials[1]
Password(credentials) == credentials[2]

\* _.defaults({}, options || {}, this._options, {credentials: {}})
ConnectOptions(given, own) ==
    Defaults(given, Defaults(own, [NoOptions EXCEPT !.credentials = NoCredentials]))

\* ['exchange', username, exchangePrefix].join('/')
PulsePrefix(username, exchangePrefix) ==
    <<"e", "x", "/">> \o username \o <<"/">> \o exchangePrefix

\* "If we have a pulse user construct exchange prefix from username"
ReferencePrefix(opts) ==
    IF TruthyT(Username(opts.credentials))
    THEN PulsePrefix(Username(opts.credentials), opts.exchangePrefix)
    ELSE opts.exchangePrefix

\* every property of a routing-key field, maxSize too
PickAll(key) ==
    [name |-> key.name, summary |-> key.summary, constant |-> key.constant,
     multipleWords |-> key.multipleWords, required |-> key.required,
     maxSize |-> key.maxSize]

\* _.pick(key, 'name', 'summary', 'constant', 'multipleWords', 'required')
Pick(key) ==
    [name |-> key.name, summary |-> key.summary, constant |-> key.constant,
     multipleWords |-> key.multipleWords, required |-> key.required]

\* the entry of the reference made from one declaration
ReferenceEntry(entry) ==
    [type        |-> "topic-exchange",
     exchange    |-> entry.exchange,
     name        |-> entry.name,
     title       |-> entry.title,
     description |-> entry.description,
     routingKey  |-> [i \in 1..Len(entry.routingKey) |-> Pick(entry.routingKey[i])],
     schema      |-> entry.schema]

NoDocument ==
    [err |-> "none", title |-> <<>>, description |-> <<>>,
     exchangePrefix |-> <<>>, entries |-> <<>>]

\* reference(given) on a registry with options `own` and declarations
\* `stored`; valid tells whether the document passes the check against
\* exchanges-reference.json
reference(given, own, stored, valid) ==
    LET opts == ConnectOptions(given, own)
    IN  IF ~TruthyT(opts.title)
            THEN [NoDocument EXCEPT !.err = "title must be provided"]
        ELSE IF ~TruthyT(opts.description)
            THEN [NoDocument EXCEPT !.err = "description must be provided"]
        ELSE IF ~valid
            THEN [NoDocument EXCEPT !.err = "Failed to validate against schema"]
        ELSE [err            |-> "",
              title          |-> opts.title,
              description    |-> opts.description,
              exchangePrefix |-> ReferencePrefix(opts),
              entries        |-> [i \in 1..Len(stored) |->
                                    ReferenceEntry(stored[i])]]

----------------------------------------------------------------------------
(* State *)

registryVars  == <<heap, entries, options, last, document>>
connectVars   == <<pc, pubEntries, pubPrefix, drain, asserts>>
brokerVars    == <<connection, channel, emitted>>
publishVars   == <<calls, published, reports>>
influxVars    == <<influxOptions, pendingPoints, nbPendingPoints, flushTimeout,
                   timers, handles, points, flushes>>
timerVars     == <<responses, responsePoints, escaped, handled, handlerPoints>>
vars == <<heap, entries, options, arg, last, document, pc, pubEntries, pubPrefix,
          drain, asserts, connection, channel, emitted, calls, published,
          reports, influxOptions, pendingPoints, nbPendingPoints, flushTimeout,
          timers, handles, points, flushes, responses, responsePoints, escaped,
          handled, handlerPoints>>

\* a routing-key field as a caller writes it
Field(name, multipleWords, required, constant, maxSize) ==
    [name |-> name, summary |-> "summary", multipleWords |-> multipleWords,
     required |-> required, constant |-> constant, maxSize |-> maxSize]

\* a declaration as a caller writes it
Declaration(exchange, name, schema, keys) ==
    [exchange |-> exchange, name |-> name, title |-> "title",
     description |-> "description", schema |-> schema,
     routingKeyIsArray |-> TRUE, routingKey |-> keys,
     messageBuilder |-> "function", routingKeyBuilder |-> "function",
     CCBuilder |-> "function"]

NoArg == Declaration(<<>>, "", <<>>, <<>>)

\* new Exchanges(ConstructorOptions); nothing connected
InitRegistry ==
    /\ heap = [id \in {} |-> NoArg]
    /\ entries = <<>>
    /\ options = Defaults(ConstructorOptions, BuiltinOptions)
    /\ last = NoCall
    /\ document = NoDocument

InitPublisher ==
    /\ pc = "none"
    /\ pubEntries = <<>>
    /\ pubPrefix = <<>>
    /\ drain = FALSE
    /\ asserts = <<>>
    /\ connection = "none"
    /\ channel = "none"
    /\ emitted = 0
    /\ calls = <<>>
    /\ published = <<>>
    /\ reports = <<>>

----------------------------------------------------------------------------
(* Registry operations *)

\* Object ids: the objects the caller writes are 1..MaxObjects, the copy that
\* _.cloneDeep makes of object id is CloneOf(id)
CloneOf(id) == id + MaxObjects
CallerObjects == {id \in DOMAIN heap : id <= MaxObjects}

Allocate(h, id, obj) ==
    [i \in DOMAIN h \cup {id} |-> IF i = id THEN obj ELSE h[i]]

\* declare(obj) called with an object the caller has just written
DeclareNew(obj, max) ==
    /\ Cardinality(CallerObjects) < max
    /\ LET r  == declare(Deref(heap, entries), options.schemaPrefix, obj)
           id == Cardinality(CallerObjects) + 1
       IN  /\ heap' = Allocate(heap, id, r.obj)
           /\ entries' = IF r.err = "" THEN Append(entries, id) ELSE entries
           /\ last' = [op |-> "declare", err |-> r.err, id |-> id]
    /\ document' = NoDocument
    /\ UNCHANGED <<options, arg, timerVars, influxVars, connectVars, brokerVars, publishVars>>

\* declare(obj) called again with an object that was given to it before
DeclareAgain(id) ==
    /\ id \in CallerObjects
    /\ Len(heap[id].schema) < MaxSchema
    /\ LET r == declare(Deref(heap, entries), options.schemaPrefix, heap[id])
       IN  /\ heap' = [heap EXCEPT ![id] = r.obj]
           /\ entries' = IF r.err = "" THEN Append(entries, id) ELSE entries
           /\ last' = [op |-> "declare", err |-> r.err, id |-> id]
    /\ document' = NoDocument
    /\ UNCHANGED <<options, arg, timerVars, influxVars, connectVars, brokerVars, publishVars>>

\* configure(given)
Configure(given) ==
    /\ options' = Defaults(given, options)
    /\ last' = [op |-> "configure", err |-> "", id |-> 0]
    /\ document' = NoDocument
    /\ UNCHANGED <<heap, entries, arg, timerVars, influxVars, connectVars, brokerVars, publishVars>>

\* reference(given)
ReferenceCall(given, valid) ==
    /\ document' = reference(given, options, Deref(heap, entries), valid)
    /\ last' = [op |-> "reference", err |-> document'.err, id |-> 0]
    /\ UNCHANGED <<heap, entries, options, arg, timerVars, influxVars, connectVars, brokerVars,
                   publishVars>>

\* The caller rewrites a declaration object it has written: its exchange,
\* schema and routing-key fields become those of `to`
ChangeObject(obj, to) ==
    [obj EXCEPT !.exchange = to.exchange, !.schema = to.schema,
                !.routingKey = to.routingKey]

CallerChanges(id, to) ==
    /\ id \in CallerObjects
    /\ heap' = [heap EXCEPT ![id] = ChangeObject(@, to)]
    /\ heap' # heap
    /\ last' = [op |-> "change", err |-> "", id |-> id]
    /\ UNCHANGED <<entries, options, arg, timerVars, influxVars, document, connectVars, brokerVars, publishVars>>

----------------------------------------------------------------------------
(* Exchanges.prototype.connect *)

\* "Find exchange prefix, may be further prefixed if pulse credentials are
\* given"
ConnectPrefix(opts) ==
    IF TruthyT(Username(opts.credentials)) /\ TruthyT(Password(opts.credentials))
    THEN PulsePrefix(Username(opts.credentials), opts.exchangePrefix)
    ELSE opts.exchangePrefix

\* ConnectError without the assertion on connectionString and credentials
ConnectErrorNoAddress(opts) ==
    IF ~TruthyT(opts.validator) THEN "validator"
    ELSE IF TruthyT(opts.drain) /\ ~TruthyT(opts.component) THEN "component"
    ELSE IF TruthyT(opts.drain) /\ ~TruthyT(opts.process) THEN "process"
    ELSE ""

\* the assertion of connect() that fails on opts, "" when none does
ConnectError(opts) ==
    IF ~(TruthyT(opts.connectionString)
         \/ (TruthyT(Username(opts.credentials))
             /\ TruthyT(Password(opts.credentials))))
        THEN "ConnectionString or credentials must be provided"
    ELSE IF ~TruthyT(opts.validator) THEN "validator"
    ELSE IF TruthyT(opts.drain) /\ ~TruthyT(opts.component) THEN "component"
    ELSE IF TruthyT(opts.drain) /\ ~TruthyT(opts.process) THEN "process"
    ELSE ""

\* no copy: the Publisher is given the registry's own objects
SameIds(ids) == ids

\* _.cloneDeep(this._entries): the ids of the copies, in the same order
CloneDeepIds(ids) == [i \in 1..Len(ids) |-> CloneOf(ids[i])]

\* _.cloneDeep(this._entries): the heap with the copies in it
CloneDeepHeap(h, ids) ==
    [i \in DOMAIN h \cup {CloneOf(ids[k]) : k \in 1..Len(ids)} |->
        IF i \in DOMAIN h THEN h[i] ELSE h[i - MaxObjects]]

\* connect(given), up to the call of amqplib.connect
Connect(given) ==
    /\ pc = "none"
    /\ LET opts == ConnectOptions(given, options)
           err  == ConnectError(opts)
       IN  /\ last' = [op |-> "connect", err |-> err, id |-> 0]
           /\ IF err # ""
              THEN UNCHANGED <<heap, connectVars>>
              ELSE /\ pc' = "connecting"
                   /\ pubEntries' = CloneDeepIds(entries)
                   /\ heap' = CloneDeepHeap(heap, entries)
                   /\ pubPrefix' = ConnectPrefix(opts)
                   /\ drain' = TruthyT(opts.drain)
                   /\ asserts' = <<>>
    /\ document' = NoDocument
    /\ UNCHANGED <<entries, options, arg, timerVars, influxVars, brokerVars, publishVars>>

\* amqplib.connect resolves: conn.createConfirmChannel() is called
ConnectionOpened ==
    /\ pc = "connecting"
    /\ pc' = "channel"
    /\ connection' = "open"
    /\ UNCHANGED <<registryVars, arg, timerVars, influxVars, pubEntries, pubPrefix, drain, asserts,
                   channel, emitted, publishVars>>

\* createConfirmChannel resolves: every entry's exchange is asserted
ChannelCreated ==
    /\ pc = "channel"
    /\ pc' = "asserting"
    /\ channel' = "open"
    /\ asserts' = [i \in 1..Len(pubEntries) |->
                     [name  |-> pubPrefix \o heap[pubEntries[i]].exchange,
                      type  |-> "topic",
                      state |-> "pending"]]
    /\ UNCHANGED <<registryVars, arg, timerVars, influxVars, pubEntries, pubPrefix, drain,
                   connection, emitted, publishVars>>

\* the broker answers one assertExchange
AssertExchangeDone(i, ok) ==
    /\ pc \in {"asserting", "rejected"}
    /\ i \in 1..Len(asserts)
    /\ asserts[i].state = "pending"
    /\ asserts' = [asserts EXCEPT ![i].state = IF ok THEN "ok" ELSE "failed"]
    /\ pc' = IF ok THEN pc ELSE "rejected"
    /\ UNCHANGED <<registryVars, arg, timerVars, influxVars, pubEntries, pubPrefix, drain,
                   brokerVars, publishVars>>

\* amqplib.connect or createConfirmChannel rejects: so does connect()
ConnectRejected ==
    /\ pc \in {"connecting", "channel"}
    /\ pc' = "rejected"
    /\ UNCHANGED <<registryVars, arg, timerVars, influxVars, pubEntries, pubPrefix, drain, asserts,
                   brokerVars, publishVars>>

\* a Publisher constructed without waiting for the exchanges
PublisherConstructedEarly ==
    /\ pc = "asserting"
    /\ pc' = "ready"
    /\ UNCHANGED <<registryVars, arg, timerVars, influxVars, pubEntries, pubPrefix, drain, asserts,
                   brokerVars, publishVars>>

\* Promise.all has resolved: new Publisher(conn, channel, entries, ...)
PublisherConstructed ==
    /\ pc = "asserting"
    /\ \A i \in 1..Len(asserts) : asserts[i].state = "ok"
    /\ pc' = "ready"
    /\ UNCHANGED <<registryVars, arg, timerVars, influxVars, pubEntries, pubPrefix, drain, asserts,
                   brokerVars, publishVars>>

----------------------------------------------------------------------------
(* Publisher *)

\* the channel's 'error' event reaches the listener the Publisher registered:
\* the fault is forwarded; the broker client has closed the channel
ChannelError ==
    /\ pc = "ready"
    /\ channel = "open"
    /\ channel' = "dead"
    /\ emitted' = emitted + 1
    /\ UNCHANGED <<registryVars, arg, timerVars, influxVars, connectVars, connection, publishVars>>

\* the connection's 'error' event: forwarded likewise; the connection and
\* with it the channel are gone
ConnectionError ==
    /\ pc = "ready"
    /\ connection = "open"
    /\ connection' = "closed"
    /\ channel' = "dead"
    /\ emitted' = emitted + 1
    /\ UNCHANGED <<registryVars, arg, timerVars, influxVars, connectVars, publishVars>>

\* a close() that rejects the publishes in flight
CloseSettling ==
    /\ pc = "ready"
    /\ connection = "open"
    /\ connection' = "closed"
    /\ channel' = "dead"
    /\ calls' = [c \in 1..Len(calls) |->
                    IF calls[c].state = "pending"
                    THEN [calls[c] EXCEPT !.state = "rejected"]
                    ELSE calls[c]]
    /\ UNCHANGED <<registryVars, arg, timerVars, influxVars, connectVars, emitted, published, reports>>

\* Publisher.prototype.close
Close ==
    /\ pc = "ready"
    /\ connection = "open"
    /\ connection' = "closed"
    /\ channel' = "dead"
    /\ UNCHANGED <<registryVars, arg, timerVars, influxVars, connectVars, emitted, publishVars>>

\* The record kept of one call of a publish method: what it was given, how
\* it stands ("threw": it threw before returning a promise; else the state of
\* the promise), the error, and what the confirm callback was called with
Call(entry, message, CCs, state, p) ==
    [entry |-> entry, message |-> message, array |-> IsArray(CCs),
     state |-> state, err |-> p.err, errors |-> p.errors, cb |-> "none",
     nCC |-> Len(p.CCs)]

\* the error flag in a point, which tells true for every outcome
ErrorFlagTrue(err) == "true"

\* error: (err ? 'true' : 'false')
ErrorFlag(err) == IF err THEN "true" ELSE "false"

\* the point handed to that._reporter by the confirm callback of call c
Point(c, p, err) ==
    [call |-> c, routingKeys |-> 1 + Len(p.CCs), payloadSize |-> p.payloadSize,
     exchange |-> p.exchange, error |-> ErrorFlag(err)]

\* a callback that accepts whatever it is called with
AlwaysAccept(err) == "resolved"

\* "Handle errors": reject(err) when the callback is given an error, else
\* accept(val)
Settle(err) == IF err THEN "rejected" ELSE "resolved"

\* a publish method that hands its message to the channel ahead of those
\* handed over before it
PublishCallFirst(e, message, routingKey, CCs, throws) ==
    /\ pc = "ready"
    /\ Len(calls) < MaxCalls
    /\ e \in 1..Len(pubEntries)
    /\ throws => channel = "dead"
    /\ LET p == Prepare(heap[pubEntries[e]], pubPrefix, message, routingKey, CCs)
           c == Len(calls) + 1
       IN  IF p.err # ""
           THEN /\ calls' = Append(calls, Call(e, message, CCs, "threw", p))
                /\ UNCHANGED published
           ELSE /\ published' =
                        << [call |-> c, exchange |-> p.exchange,
                            routingKey |-> p.routingKey, CC |-> p.CCs,
                            payloadSize |-> p.payloadSize] >> \o published
                /\ calls' = Append(calls,
                        IF throws
                        THEN [Call(e, message, CCs, "rejected", p)
                                EXCEPT !.err = "channel closed"]
                        ELSE Call(e, message, CCs, "pending", p))
    /\ UNCHANGED <<registryVars, arg, timerVars, influxVars, connectVars, brokerVars, reports>>

\* One call of the publish method of entry e.  A closed channel makes
\* channel.publish throw inside the promise (throws), which rejects it, or
\* takes the message and fails it later through the callback.
PublishCall(e, message, routingKey, CCs, throws) ==
    /\ pc = "ready"
    /\ Len(calls) < MaxCalls
    /\ e \in 1..Len(pubEntries)
    /\ throws => channel = "dead"
    /\ LET p == Prepare(heap[pubEntries[e]], pubPrefix, message, routingKey, CCs)
           c == Len(calls) + 1
       IN  IF p.err # ""
           THEN /\ calls' = Append(calls, Call(e, message, CCs, "threw", p))
                /\ UNCHANGED published
           ELSE /\ published' = Append(published,
                        [call |-> c, exchange |-> p.exchange,
                         routingKey |-> p.routingKey, CC |-> p.CCs,
                         payloadSize |-> p.payloadSize])
                /\ calls' = Append(calls,
                        IF throws
                        THEN [Call(e, message, CCs, "rejected", p)
                                EXCEPT !.err = "channel closed"]
                        ELSE Call(e, message, CCs, "pending", p))
    /\ UNCHANGED <<registryVars, arg, timerVars, influxVars, connectVars, brokerVars, reports>>

\* a confirmation of call c that settles the oldest call in flight
ConfirmOldest(c, ok) ==
    /\ c \in 1..Len(calls)
    /\ calls[c].state = "pending"
    /\ calls[c].cb = "none"
    /\ ok => channel = "open"
    /\ LET o == CHOOSE o \in 1..Len(calls) :
                    /\ calls[o].state = "pending"
                    /\ \A d \in 1..(o - 1) : calls[d].state # "pending"
       IN  calls' = [calls EXCEPT ![o].cb = IF ok THEN "ack" ELSE "nack",
                                  ![o].state = Settle(~ok),
                                  ![o].err = IF ok THEN "" ELSE "nack"]
    /\ UNCHANGED <<registryVars, arg, timerVars, influxVars, connectVars, brokerVars, published,
                   reports>>

\* The broker client invokes the confirm callback of call c, without error
\* (ok) or with one: the point is reported, then the promise is settled
Confirm(c, ok) ==
    /\ c \in 1..Len(calls)
    /\ calls[c].state = "pending"
    /\ calls[c].cb = "none"
    /\ ok => channel = "open"
    /\ LET m == CHOOSE m \in 1..Len(published) : published[m].call = c
           p == [CCs |-> published[m].CC, exchange |-> published[m].exchange,
                 payloadSize |-> published[m].payloadSize]
       IN  reports' = IF drain THEN Append(reports, Point(c, p, ~ok))
                      ELSE reports
    /\ calls' = [calls EXCEPT ![c].cb = IF ok THEN "ack" ELSE "nack",
                              ![c].state = Settle(~ok),
                              ![c].err = IF ok THEN "" ELSE "nack"]
    /\ UNCHANGED <<registryVars, arg, timerVars, influxVars, connectVars, brokerVars, published>>

----------------------------------------------------------------------------
(* Influx (stats.js): the drain that buffers points and submits them *)

\* a number option that is not given
UndefinedN == -1

\* _.defaults({}, options, {maxDelay: 60 * 5, maxPendingPoints: 250})
InfluxDefaults(given) ==
    [maxPendingPoints |->
        IF given.maxPendingPoints # UndefinedN THEN given.maxPendingPoints
        ELSE 250]

Series == {"s", "t"}

\* this._flushTimeout = null
NullTimer == 0

\* this._pendingPoints = {}: no series has an entry
NoPendingPoints == [s \in Series |-> <<>>]

\* clearTimeout(handle) on the timers ts; clearTimeout(null) clears nothing
ClearTimeout(ts, handle) == ts \ {handle}

\* a flush that leaves the buffer as it is
KeepPending(pending) == pending

\* "Reset internals": this._pendingPoints after the payload is taken
ResetPending(pending) == NoPendingPoints

\* a flush triggered only above maxPendingPoints
TooManyPointsStrict(nb, max) == nb > max

\* "Flush if we have too many points"
TooManyPoints(nb, max) == nb >= max

\* The record kept of one flush(restart) call: who made it, the number of
\* addPoint calls made before it, the payload sent (no request is made when
\* nothing is pending), the outcome of the request, and how the promise it
\* returned stands: "sending" while the request is outstanding, "restarting"
\* while only the restart callback is still to run, else settled
FlushRecord(by, restart, at, payload, state) ==
    [by |-> by, restart |-> restart, at |-> at, payload |-> payload,
     http |-> "none", state |-> state, err |-> ""]

\* The synchronous part of flush(restart), lines 58-116, called with the
\* buffer `pending` of `nb` points, this._flushTimeout = timeout and the
\* timers ts outstanding, after `at` calls of addPoint
Flush(restart, by, at, pending, nb, timeout, ts) ==
    /\ Len(flushes) < MaxFlushes
    /\ flushTimeout' = IF restart THEN NullTimer ELSE timeout
    /\ timers' = IF restart THEN ClearTimeout(ts, timeout) ELSE ts
    /\ IF nb > 0
       THEN /\ pendingPoints' = ResetPending(pending)
            /\ nbPendingPoints' = 0
            /\ flushes' = Append(flushes,
                              FlushRecord(by, restart, at, pending, "sending"))
       ELSE /\ pendingPoints' = pending
            /\ nbPendingPoints' = nb
            /\ flushes' = Append(flushes,
                              FlushRecord(by, restart, at, NoPendingPoints,
                                  IF restart THEN "restarting" ELSE "resolved"))

\* addPoint(series, point)
AddPoint(series) ==
    /\ points < MaxPoints
    /\ points' = points + 1
    /\ LET pending == [pendingPoints EXCEPT ![series] = Append(@, points + 1)]
           nb      == nbPendingPoints + 1
       IN  IF TooManyPoints(nb, influxOptions.maxPendingPoints)
           THEN Flush(TRUE, "addPoint", points + 1, pending, nb, flushTimeout,
                      timers)
           ELSE /\ pendingPoints' = pending
                /\ nbPendingPoints' = nb
                /\ UNCHANGED <<flushTimeout, timers, flushes>>
    /\ UNCHANGED <<registryVars, arg, timerVars, connectVars, brokerVars, publishVars,
                   influxOptions, handles>>

\* flush(restart) called by the owner of the drain
FlushCall(restart) ==
    /\ Flush(restart, "caller", points, pendingPoints, nbPendingPoints,
             flushTimeout, timers)
    /\ UNCHANGED <<registryVars, arg, timerVars, connectVars, brokerVars, publishVars,
                   influxOptions, handles, points>>

\* close(): the recorded timer is cleared, then flush(false)
InfluxClose ==
    /\ Flush(FALSE, "close", points, pendingPoints, nbPendingPoints,
             NullTimer, ClearTimeout(timers, flushTimeout))
    /\ UNCHANGED <<registryVars, arg, timerVars, connectVars, brokerVars, publishVars,
                   influxOptions, handles, points>>

\* the timer h fires: this.flush.bind(this, true) runs
TimerFires(h) ==
    /\ h \in timers
    /\ Flush(TRUE, "timer", points, pendingPoints, nbPendingPoints,
             flushTimeout, timers \ {h})
    /\ UNCHANGED <<registryVars, arg, timerVars, connectVars, brokerVars, publishVars,
                   influxOptions, handles, points>>

\* The callback that flush(true) chains on `done`, lines 107-113.  The file
\* is in strict mode and a promise calls its callbacks as plain functions,
\* so `this` is undefined in it: the assignment to this._flushTimeout throws a
\* TypeError, which rejects the promise flush returned, and the drain's
\* _flushTimeout stays as it is.  Whether setTimeout has been called by then
\* (scheduled) depends on the order in which the engine evaluates the two
\* sides of the assignment.
RestartCallback(f, http, scheduled) ==
    /\ handles' = IF scheduled THEN handles + 1 ELSE handles
    /\ timers' = IF scheduled THEN timers \cup {handles + 1} ELSE timers
    /\ flushTimeout' = flushTimeout
    /\ flushes' = [flushes EXCEPT ![f].state = "rejected",
                                  ![f].err = "TypeError",
                                  ![f].http = http]

\* The request of flush f completes: with res.ok ("ok"), with another status
\* ("not ok": the first callback throws) or with an error ("error"); the
\* second callback swallows both failures, so `done` is resolved, and the
\* restart callback, if any, runs next
HttpDone(f, outcome, scheduled) ==
    /\ f \in 1..Len(flushes)
    /\ flushes[f].state = "sending"
    /\ IF flushes[f].restart
       THEN RestartCallback(f, outcome, scheduled)
       ELSE /\ ~scheduled
            /\ flushes' = [flushes EXCEPT ![f].state = "resolved",
                                          ![f].http = outcome]
            /\ UNCHANGED <<flushTimeout, timers, handles>>
    /\ UNCHANGED <<registryVars, arg, timerVars, connectVars, brokerVars, publishVars,
                   influxOptions, pendingPoints, nbPendingPoints, points>>

\* the restart callback of a flush(true) that had nothing to send runs, once
\* the code that called flush has returned
Restarted(f, scheduled) ==
    /\ f \in 1..Len(flushes)
    /\ flushes[f].state = "restarting"
    /\ RestartCallback(f, "none", scheduled)
    /\ UNCHANGED <<registryVars, arg, timerVars, connectVars, brokerVars, publishVars,
                   influxOptions, pendingPoints, nbPendingPoints, points>>

\* no drain has been constructed
NoInflux ==
    /\ influxOptions = [maxPendingPoints |-> UndefinedN]
    /\ pendingPoints = NoPendingPoints
    /\ nbPendingPoints = 0
    /\ flushTimeout = NullTimer
    /\ timers = {}
    /\ handles = 0
    /\ points = 0
    /\ flushes = <<>>

\* new Influx(given): nothing pending, the first flush timer set
NewInflux(given) ==
    /\ influxOptions = InfluxDefaults(given)
    /\ pendingPoints = NoPendingPoints
    /\ nbPendingPoints = 0
    /\ flushTimeout = 1
    /\ timers = {1}
    /\ handles = 1
    /\ points = 0
    /\ flushes = <<>>

----------------------------------------------------------------------------
(* createResponseTimer and createHandlerTimer (stats.js) *)

\* What reporter(point) does: it returns, it throws an Error, or it throws a
\* value that has no properties (null or undefined)
ReporterOutcomes == {"returns", "throws Error", "throws null"}

\* The catch block of send(): debug(..., err, err, err.stack) reads err.stack,
\* which is a TypeError of its own when err is null or undefined; nothing
\* catches that one, so it leaves send().  TRUE when the catch block returns
Caught(thrown) == thrown # "throws null"

\* The middleware is called for a request: sent = false, send is registered
\* once for 'finish' and once for 'close', next() is called.  malformed: the
\* point cannot be built from the request (req.method is no string, or a
\* parameter has an empty name), so building it throws a TypeError
Middleware(malformed) ==
    /\ Len(responses) < MaxRequests
    /\ responses' = Append(responses,
                      [sent |-> FALSE, finish |-> TRUE, close |-> TRUE,
                       malformed |-> malformed])
    /\ UNCHANGED <<registryVars, arg, connectVars, brokerVars, publishVars,
                   influxVars, responsePoints, escaped, handled,
                   handlerPoints>>

\* The response of request r emits event ('finish' or 'close') while send
\* is still registered for it: send() runs, lines 263-294, with the reporter
\* behaving as `outcome` if it is called
Emit(r, event, outcome) ==
    /\ r \in 1..Len(responses)
    /\ responses[r][event]
    /\ (responses[r].sent \/ responses[r].malformed) => outcome = "returns"
    /\ responses' = [responses EXCEPT ![r][event] = FALSE, ![r].sent = TRUE]
    /\ IF responses[r].sent
       THEN UNCHANGED <<responsePoints, escaped>>
       ELSE IF responses[r].malformed
       THEN \* the TypeError of the build is an Error: caught
            UNCHANGED <<responsePoints, escaped>>
       ELSE /\ responsePoints' = Append(responsePoints,
                                    [request |-> r, outcome |-> outcome])
            /\ escaped' = IF outcome = "returns" \/ Caught(outcome)
                          THEN escaped ELSE escaped + 1
    /\ UNCHANGED <<registryVars, arg, connectVars, brokerVars, publishVars,
                   influxVars, handled, handlerPoints>>

\* message.exchange || ''
ExchangeOrEmpty(exchange) == IF TruthyT(exchange) THEN exchange ELSE <<>>

\* the point the wrapper reports for a message, error being 'false' from
\* the start and set to 'true' in the rejection callback
HandlerPoint(i, message, failed) ==
    [message     |-> i,
     exchange    |-> ExchangeOrEmpty(message.exchange),
     redelivered |-> (IF message.redelivered THEN "true" ELSE "false"),
     error       |-> (IF failed THEN "true" ELSE "false")]

\* The wrapper made by createHandlerTimer is called with a message, lines
\* 325-364: handler(message) returns a value ("returned"), returns a promise
\* still pending ("pending"), or throws ("threw").  A throw happens inside
\* the argument of Promise.resolve(...), before any promise exists: it
\* leaves the wrapper as a synchronous exception and no callback is
\* registered
HandlerCall(message, behaviour) ==
    /\ Len(handled) < MaxMessages
    /\ handled' = Append(handled,
                    [message |-> message, handler |-> behaviour,
                     wrapper |-> IF behaviour = "threw" THEN "threw"
                                 ELSE "pending"])
    /\ UNCHANGED <<registryVars, arg, connectVars, brokerVars, publishVars,
                   influxVars, responses, responsePoints, escaped,
                   handlerPoints>>

\* The promise of call i settles and the callback given to then() runs:
\* fulfilled (ok) as a returned value always is, or rejected.  The point is
\* reported, and the rejection callback throws the handler's error again
HandlerSettled(i, ok) ==
    /\ i \in 1..Len(handled)
    /\ handled[i].wrapper = "pending"
    /\ handled[i].handler = "returned" => ok
    /\ handlerPoints' = Append(handlerPoints,
                            HandlerPoint(i, handled[i].message, ~ok))
    /\ handled' = [handled EXCEPT
                     ![i].handler = IF @ = "pending"
                                    THEN (IF ok THEN "fulfilled" ELSE "rejected")
                                    ELSE @,
                     ![i].wrapper = IF ok THEN "resolved" ELSE "rejected"]
    /\ UNCHANGED <<registryVars, arg, connectVars, brokerVars, publishVars,
                   influxVars, responses, responsePoints, escaped>>

\* no middleware and no wrapper has been called
NoTimers ==
    /\ responses = <<>>
    /\ responsePoints = <<>>
    /\ escaped = 0
    /\ handled = <<>>
    /\ handlerPoints = <<>>

----------------------------------------------------------------------------
(* Inputs *)

KeyNames == {"a", "b", JsNull}

\* results of a routingKeyBuilder: a string, a mapping, or undefined
NoMapping == [n \in KeyNames |-> UndefinedWord]
KeyString(s)   == [t |-> "string",    s |-> s,    m |-> NoMapping]
KeyMapping(m)  == [t |-> "object",    s |-> <<>>, m |-> m]
KeyUndefined   == [t |-> "undefined", s |-> <<>>, m |-> NoMapping]

Message(schema, size) == [schema |-> schema, size |-> size]

\* the declarations the caller writes in the life-cycle specification
FieldA == Field("a", "false", "true", <<>>, 2)
FieldB == Field("b", "undefined", "undefined", <<>>, 1)
NewDeclarations ==
    { Declaration(<<"e">>, "n", <<"s">>, <<FieldA>>),
      Declaration(<<"f">>, "m", <<"s">>, <<FieldA, FieldB>>),
      Declaration(<<"e">>, "m", <<"s">>, <<>>) }

Configurations ==
    { [NoOptions EXCEPT !.schemaPrefix = <<"p">>],
      [NoOptions EXCEPT !.exchangePrefix = <<"x">>] }

LifeConfigurations == { [NoOptions EXCEPT !.schemaPrefix = <<"p">>] }

Changes == { Declaration(<<"g">>, "", <<"z">>, <<FieldB>>) }

Given == <<"given">>
ConnectInputs ==
    { NoOptions,
      [NoOptions EXCEPT !.connectionString = <<"u">>, !.validator = Given],
      [NoOptions EXCEPT !.connectionString = <<"u">>, !.validator = Given,
                        !.drain = Given, !.component = <<"c">>,
                        !.process = <<"p">>] }

Messages == { Message(<<"s">>, 2), Message(<<"p", "s">>, 3) }

RoutingKeys ==
    { KeyString(<<"k">>),
      KeyMapping([NoMapping EXCEPT !["a"] = Word("string", <<"v">>)]),
      KeyMapping([NoMapping EXCEPT !["a"] = Word("string", <<"v", "w", "x">>)]),
      KeyMapping([NoMapping EXCEPT !["a"] = Word("string", <<".">>)]),
      KeyMapping(NoMapping) }

CCLists == { <<>>, << <<"c">> >>, NotAnArray }

----------------------------------------------------------------------------
(* The registry alone: any sequence of declare() and configure() calls *)

Init == InitRegistry /\ InitPublisher /\ NoInflux /\ NoTimers /\ arg = NoArg

NextRegistry(declarations, configurations, max) ==
    \/ \E obj \in declarations : DeclareNew(obj, max)
    \/ \E id \in CallerObjects : DeclareAgain(id)
    \/ \E given \in configurations : Configure(given)

SpecRegistry ==
    Init /\ [][NextRegistry(NewDeclarations, Configurations, MaxObjects)]_vars

----------------------------------------------------------------------------
(* The registry and its reference() *)

\* options given to reference(): none, an empty title, an empty description,
\* a pulse username, an exchange prefix
ReferenceInputs ==
    { NoOptions,
      [NoOptions EXCEPT !.title = <<>>],
      [NoOptions EXCEPT !.description = <<>>],
      [NoOptions EXCEPT !.credentials = << <<"u">>, UndefinedT >>],
      [NoOptions EXCEPT !.exchangePrefix = <<"x">>] }

NextReference ==
    \/ NextRegistry(NewDeclarations, LifeConfigurations, MaxObjects)
    \/ \E given \in ReferenceInputs, valid \in BOOLEAN :
          ReferenceCall(given, valid)

SpecReference == Init /\ [][NextReference]_vars

----------------------------------------------------------------------------
(* The life cycle up to the Publisher: the registry, its caller, connect() *)

NextConnect ==
    \/ \E given \in ConnectInputs : Connect(given)
    \/ ConnectionOpened
    \/ ChannelCreated
    \/ \E i \in 1..Len(asserts), ok \in BOOLEAN : AssertExchangeDone(i, ok)
    \/ ConnectRejected
    \/ PublisherConstructed

NextCaller ==
    \E id \in CallerObjects, to \in Changes : CallerChanges(id, to)

LifeDeclarations ==
    { Declaration(<<"e">>, "n", <<"s">>, <<FieldA>>),
      Declaration(<<"f">>, "m", <<"s">>, <<FieldA, FieldB>>) }

Next ==
    \/ NextRegistry(LifeDeclarations, LifeConfigurations, MaxLifeObjects)
    \/ NextConnect
    \/ NextCaller

Spec == Init /\ [][Next]_vars

----------------------------------------------------------------------------
(* connect() and reference() given the same options on the same registry *)

\* The registry after new Exchanges(ConstructorOptions), configure(configured)
\* and declare() of each of decls, all accepted; nothing connected
Registered(decls, configured) ==
    LET n      == Len(decls)
        stored == [i \in 1..n |-> declare(<<>>, options.schemaPrefix, decls[i])]
    IN  /\ options = Defaults(configured,
                              Defaults(ConstructorOptions, BuiltinOptions))
        /\ \A i \in 1..n : stored[i].err = ""
        /\ \A i, j \in 1..n :
              i # j => UniqueAmong(<<stored[i].obj>>, stored[j].obj, 1) = ""
        /\ entries = [i \in 1..n |-> i]
        /\ heap = [i \in 1..n |-> stored[i].obj]
        /\ last = [op |-> "declare", err |-> "", id |-> n]
        /\ document = NoDocument
        /\ InitPublisher
        /\ NoInflux
        /\ NoTimers

PublisherDeclarations ==
    << Declaration(<<"e">>, "n", <<"s">>, <<FieldA>>),
       Declaration(<<"f">>, "m", <<"s">>, <<FieldA, FieldB>>) >>

\* options with or without a username, a password, a connection string and
\* an exchange prefix; a validator always
ConnectCases ==
    { [NoOptions EXCEPT !.credentials = <<u, w>>, !.connectionString = c,
                        !.exchangePrefix = x, !.validator = Given] :
        u \in {UndefinedT, <<"u">>}, w \in {UndefinedT, <<"w">>},
        c \in {UndefinedT, <<"c">>}, x \in {UndefinedT, <<"x">>} }

ConnectConfigurations ==
    { NoOptions,
      [NoOptions EXCEPT !.exchangePrefix = <<"y">>],
      [NoOptions EXCEPT !.connectionString = <<"r">>] }

InitConnect ==
    /\ arg \in ConnectCases
    /\ \E configured \in ConnectConfigurations :
          Registered(PublisherDeclarations, configured)

NextConnectCase ==
    \/ Connect(arg)
    \/ ConnectionOpened
    \/ ChannelCreated
    \/ \E i \in 1..Len(asserts), ok \in BOOLEAN : AssertExchangeDone(i, ok)
    \/ ConnectRejected
    \/ PublisherConstructed
    \/ \E valid \in BOOLEAN : ReferenceCall(arg, valid)

SpecConnect == InitConnect /\ [][NextConnectCase]_vars

----------------------------------------------------------------------------
(* The Publisher in use *)

\* The state in which connect() has just produced a Publisher for a registry
\* on which the declarations decls were declared, in this order, all accepted
Ready(decls) ==
    LET n      == Len(decls)
        stored == [i \in 1..n |-> declare(<<>>, options.schemaPrefix, decls[i])]
    IN  /\ options = Defaults(ConstructorOptions, BuiltinOptions)
        /\ \A i \in 1..n : stored[i].err = ""
        /\ \A i, j \in 1..n :
              i # j => UniqueAmong(<<stored[i].obj>>, stored[j].obj, 1) = ""
        /\ entries = [i \in 1..n |-> i]
        /\ heap = CloneDeepHeap([i \in 1..n |-> stored[i].obj], entries)
        /\ last = [op |-> "connect", err |-> "", id |-> 0]
        /\ document = NoDocument
        /\ pc = "ready"
        /\ pubEntries = CloneDeepIds(entries)
        /\ pubPrefix = options.exchangePrefix
        /\ asserts = [i \in 1..n |->
                        [name  |-> pubPrefix \o heap[pubEntries[i]].exchange,
                         type  |-> "topic",
                         state |-> "ok"]]
        /\ connection = "open"
        /\ channel = "open"
        /\ emitted = 0
        /\ calls = <<>>
        /\ published = <<>>
        /\ reports = <<>>
        /\ NoInflux
        /\ NoTimers

InitPublisherReady ==
    /\ Ready(PublisherDeclarations)
    /\ drain \in BOOLEAN
    /\ arg = NoArg

NextPublisher ==
    \/ ChannelError
    \/ ConnectionError
    \/ Close
    \/ \E e \in 1..Len(pubEntries), message \in Messages,
          routingKey \in RoutingKeys, CCs \in CCLists, throws \in BOOLEAN :
            PublishCall(e, message, routingKey, CCs, throws)
    \/ \E c \in 1..Len(calls), ok \in BOOLEAN : Confirm(c, ok)

SpecPublisher == InitPublisherReady /\ [][NextPublisher]_vars

----------------------------------------------------------------------------
(* declare() as a function of the declaration it is given *)

MaxSizes == {0, 1, 127, 128, 254, 255, 256}

\* the routing-key fields a caller may write: any name, multipleWords or
\* not, a maxSize around the limits or none, a constant with or without one
DeclareFields ==
    { Field(n, mw, "true", <<>>, sz) :
        n \in KeyNames, mw \in {"true", "undefined"}, sz \in MaxSizes }
    \cup
    { Field(n, mw, "true", <<"v", "1">>, sz) :
        n \in KeyNames, mw \in {"true", "undefined"}, sz \in {0, 253} }

\* the sequences of at most n elements of S
UpTo(S, n) == UNION { [1..k -> S] : k \in 0..n }

DeclareInputs ==
    { Declaration(<<"e">>, "n", <<"s">>, keys) :
        keys \in UpTo(DeclareFields, MaxFields) }

InitDeclare ==
    /\ InitRegistry
    /\ InitPublisher
    /\ NoInflux
    /\ NoTimers
    /\ arg \in DeclareInputs

\* declare(arg), once, on a new registry
DeclareArg ==
    /\ last.op = "none"
    /\ DeclareNew(arg, 1)

SpecDeclare == InitDeclare /\ [][DeclareArg]_vars

----------------------------------------------------------------------------
(* The routing-key encoding as a function of the declaration and of what    *)
(* routingKeyBuilder returns                                                *)

\* the routing-key fields written: without a constant and with a maxSize,
\* with a constant and no maxSize, with a constant longer than the maxSize
EncodeFields ==
    { Field(n, mw, rq, <<>>, sz) :
        n \in {"a", "b"}, mw \in {"true", "undefined"},
        rq \in {"true", "undefined"}, sz \in {1, 3} }
    \cup
    { Field(n, mw, rq, c, 0) :
        n \in {"a", "b"}, mw \in {"true", "undefined"},
        rq \in {"true", "undefined"}, c \in {<<"v", "1">>, <<".">>} }
    \cup
    { Field(n, mw, rq, <<"v", "1">>, 1) :
        n \in {"a", "b"}, mw \in {"true", "undefined"},
        rq \in {"true", "undefined"} }

EncodeDeclarations ==
    { Declaration(<<"e">>, "n", <<"s">>, keys) :
        keys \in UpTo(EncodeFields, MaxFields) }

\* the declarations of S that declare() accepts on a new registry
Accepted(S) ==
    { d \in S : declare(<<>>, BuiltinOptions.schemaPrefix, d).err = "" }

Words ==
    { UndefinedWord, Word("null", <<>>), Word("object", <<>>),
      Word("string", <<>>), Word("string", <<"v">>),
      Word("string", <<"v", ".", "w">>), Word("number", <<"7">>),
      Word("number", <<"1", ".", "5">>) }

\* a string one longer than a routing key may be
LongString == [i \in 1..(RoutingKeyLimit + 1) |-> "k"]

EncodeKeys ==
    { KeyMapping([NoMapping EXCEPT !["a"] = wa, !["b"] = wb]) :
        wa \in Words, wb \in Words }
    \cup { KeyString(<<"k">>), KeyString(<<"k", ".", ".", "k">>),
           KeyString(LongString), KeyUndefined }

\* a Publisher for a registry holding one accepted declaration, and what the
\* routingKeyBuilder of its method will return
InitEncode ==
    /\ \E d \in Accepted(EncodeDeclarations), k \in EncodeKeys :
          /\ arg = [declaration |-> d, routingKey |-> k]
          /\ Ready(<<d>>)
    /\ drain = FALSE

\* the method is called, once; the message is valid and there are no CCs
EncodeCall ==
    /\ calls = <<>>
    /\ PublishCall(1, Message(<<"s">>, 2), arg.routingKey, <<>>, FALSE)

SpecEncode == InitEncode /\ [][EncodeCall]_vars

----------------------------------------------------------------------------
(* The Influx drain in use *)

\* the options given to new Influx: maxPendingPoints of 1, 2, 3, or none
InfluxInputs ==
    { [maxPendingPoints |-> n] : n \in {UndefinedN, 1, 2, 3} }

InitInflux ==
    /\ InitRegistry
    /\ InitPublisher
    /\ arg = NoArg
    /\ NoTimers
    /\ \E given \in InfluxInputs : NewInflux(given)

HttpOutcomes == {"ok", "not ok", "error"}

NextInflux ==
    \/ \E series \in Series : AddPoint(series)
    \/ \E restart \in BOOLEAN : FlushCall(restart)
    \/ InfluxClose
    \/ \E h \in timers : TimerFires(h)
    \/ \E f \in 1..Len(flushes), outcome \in HttpOutcomes,
          scheduled \in BOOLEAN : HttpDone(f, outcome, scheduled)
    \/ \E f \in 1..Len(flushes), scheduled \in BOOLEAN : Restarted(f, scheduled)

SpecInflux == InitInflux /\ [][NextInflux]_vars

----------------------------------------------------------------------------
(* The response timer and the handler timer in use *)

ResponseEvents == {"finish", "close"}

NextResponseTimer ==
    \/ \E malformed \in BOOLEAN : Middleware(malformed)
    \/ \E r \in 1..Len(responses), event \in ResponseEvents,
          outcome \in ReporterOutcomes : Emit(r, event, outcome)

SpecResponseTimer == Init /\ [][NextResponseTimer]_vars

\* the messages the wrapped handler is given: with or without an exchange,
\* redelivered or not
HandlerMessages ==
    { [exchange |-> x, redelivered |-> d] :
        x \in {UndefinedT, <<"e">>}, d \in BOOLEAN }

HandlerBehaviours == {"returned", "pending", "threw"}

NextHandlerTimer ==
    \/ \E message \in HandlerMessages, behaviour \in HandlerBehaviours :
          HandlerCall(message, behaviour)
    \/ \E i \in 1..Len(handled), ok \in BOOLEAN : HandlerSettled(i, ok)

SpecHandlerTimer == Init /\ [][NextHandlerTimer]_vars

----------------------------------------------------------------------------
(* Properties of declare() *)

\* the maxSize a field ends up with: the constant's length when it has a
\* constant and no maxSize of its own
EffectiveMaxSize(f) ==
    IF f.constant # <<>> /\ f.maxSize = 0 THEN Len(f.constant) ELSE f.maxSize

RECURSIVE SumMaxSize(_, _)
SumMaxSize(keys, i) ==
    IF i > Len(keys) THEN 0
    ELSE EffectiveMaxSize(keys[i]) + SumMaxSize(keys, i + 1)

\* all maxSize plus one separator per field after the first
TotalSize(keys) ==
    SumMaxSize(keys, 1) + (IF Len(keys) > 0 THEN Len(keys) - 1 ELSE 0)

MultipleWordsFields(keys) ==
    {i \in 1..Len(keys) : Truthy(keys[i].multipleWords)}

\* valid but for the size of its routing key: distinct field names, at most
\* one multipleWords field, every field with a positive maxSize
OtherwiseValid(d) ==
    /\ \A i, j \in 1..Len(d.routingKey) :
          i # j => d.routingKey[i].name # d.routingKey[j].name
    /\ Cardinality(MultipleWordsFields(d.routingKey)) <= 1
    /\ \A i \in 1..Len(d.routingKey) : EffectiveMaxSize(d.routingKey[i]) > 0

Declared == last.op = "declare"

\* C8: an otherwise valid declaration is refused by declare() exactly when
\* the sum of its fields' maxSize plus one separator per field after the first
\* exceeds 255; it is stored when that total is at most 255.
C8_SizeBudget ==
    (Declared /\ OtherwiseValid(arg)) =>
        /\ (last.err # "") <=> (TotalSize(arg.routingKey) > RoutingKeyLimit)
        /\ (last.err # "") => (last.err = "size" /\ entries = <<>>)
        /\ (last.err = "") => entries = <<last.id>>

\* C8 witness: two fields that fill the 255 exactly were accepted
C8_Witness ==
    /\ Declared
    /\ OtherwiseValid(arg)
    /\ Len(arg.routingKey) = 2
    /\ TotalSize(arg.routingKey) = RoutingKeyLimit
    /\ last.err = ""
    /\ entries = <<1>>

\* C8, the other side of the boundary: a total of 256 was refused
C8_WitnessRefused ==
    /\ Declared
    /\ OtherwiseValid(arg)
    /\ Len(arg.routingKey) = 2
    /\ TotalSize(arg.routingKey) = RoutingKeyLimit + 1
    /\ last.err = "size"

\* C9: declare() of a declaration with two or more multipleWords fields
\* fails, so no stored declaration has more than one.
C9_TwoMultipleWordsRefused ==
    (Declared /\ Cardinality(MultipleWordsFields(arg.routingKey)) >= 2) =>
        (last.err # "" /\ entries = <<>>)

----------------------------------------------------------------------------
(* Properties of the registry *)

StoredValues == Deref(heap, entries)

UniqueEntries ==
    \A i, j \in 1..Len(entries) :
        i # j => /\ StoredValues[i].exchange # StoredValues[j].exchange
                 /\ StoredValues[i].name # StoredValues[j].name

\* the declare() call that ends in the primed state was given a declaration
\* whose exchange or name is that of a declaration stored before the call
DeclaredDuplicate ==
    /\ last'.op = "declare"
    /\ \E i \in 1..Len(entries) :
          \/ StoredValues[i].exchange = heap'[last'.id].exchange
          \/ StoredValues[i].name = heap'[last'.id].name

\* C7: after any sequence of declare() calls the stored declarations have
\* pairwise distinct exchange and pairwise distinct name; a declare() whose
\* exchange or name is already registered fails and stores nothing.
C7_UniqueExchangeAndName ==
    [][ /\ UniqueEntries'
        /\ DeclaredDuplicate => (last'.err # "" /\ entries' = entries) ]_vars

\* C7 witness: with a declaration stored, another object reusing its name or
\* its exchange has just been refused and is not in the registry
C7_Witness ==
    /\ Declared
    /\ last.err \in {"duplicate exchange", "duplicate name"}
    /\ last.id \notin {entries[i] : i \in 1..Len(entries)}
    /\ Len(entries) >= 1

----------------------------------------------------------------------------
(* Properties of connect() *)

\* the declarations as the Publisher's methods read them
PublisherView == Deref(heap, pubEntries)

\* C4: the Publisher works on the declarations as they were when connect()
\* was called: no later declare() on the registry and no later change of the
\* registry's declarations changes its methods or what they use.
C4_Snapshot ==
    [][ /\ (pc = "none" /\ pc' # "none") => PublisherView' = StoredValues
        /\ pc # "none" => PublisherView' = PublisherView ]_vars

\* C4 witness: a Publisher exists and the registry no longer holds what it
\* held when connect() was called
C4_Witness ==
    /\ pc = "ready"
    /\ Len(pubEntries) = 1
    /\ StoredValues # PublisherView

----------------------------------------------------------------------------
(* Properties of the publish methods *)

CallIds == 1..Len(calls)

\* the declaration behind the method that call c is a call of
EntryOf(c) == heap[pubEntries[calls[c].entry]]

\* the message built for call c fails validation against the entry's schema
FailsValidation(c) == ValidatorCheck(calls[c].message, EntryOf(c).schema) # <<>>

PublishedFor(c) == {m \in 1..Len(published) : published[m].call = c}
ReportsFor(c)   == {r \in 1..Len(reports) : reports[r].call = c}

\* call c made no channel.publish, and no point was reported for it
NoBrokerNoPoint(c) == PublishedFor(c) = {} /\ ReportsFor(c) = {}

\* call c failed with the validator's errors
FailedOnValidation(c) ==
    /\ calls[c].state = "threw"
    /\ calls[c].err = "Message validation failed"
    /\ calls[c].errors = ValidatorCheck(calls[c].message, EntryOf(c).schema)

\* C1: a call whose built message fails validation makes no channel.publish,
\* fails with an error carrying the validator's errors, and records no point
\* (so none with error=false).  The validator is reached when CCBuilder
\* returned an array; when it did not, the call has already failed on that
\* assertion, with no channel.publish and no point either.
C1_InvalidMessageNotSent ==
    \A c \in CallIds :
        FailsValidation(c) =>
            /\ NoBrokerNoPoint(c)
            /\ calls[c].array => FailedOnValidation(c)
            /\ ~calls[c].array =>
                  /\ calls[c].state = "threw"
                  /\ calls[c].err = "CCBuilder must return an array"

\* C1 witness: with a drain configured, a call with an array of CCs and a
\* message that fails validation has failed on the validation
C1_Witness ==
    /\ drain
    /\ \E c \in CallIds :
          FailsValidation(c) /\ calls[c].array /\ FailedOnValidation(c)

Settled(c) == calls[c].state \in {"resolved", "rejected"}

\* C2 as stated: the promise of a call is resolved only after its confirm
\* callback fired without error, rejected with the broker's error when the
\* callback reports one, and not settled before the callback fires.
C2_Stated ==
    \A c \in CallIds :
        /\ calls[c].state = "resolved" => calls[c].cb = "ack"
        /\ calls[c].cb = "nack" =>
              (calls[c].state = "rejected" /\ calls[c].err = "nack")
        /\ Settled(c) => calls[c].cb # "none"

\* C2 as amended: the promise of a call is resolved only after its confirm
\* callback fired without error and is rejected with the broker's error when
\* the callback reports one; it is settled before the callback fires only
\* when channel.publish itself throws, which rejects it with that error.
C2_SettledByConfirm ==
    \A c \in CallIds :
        /\ calls[c].state = "resolved" => calls[c].cb = "ack"
        /\ calls[c].cb = "nack" =>
              (calls[c].state = "rejected" /\ calls[c].err = "nack")
        /\ (Settled(c) /\ calls[c].cb = "none") =>
              /\ calls[c].state = "rejected"
              /\ calls[c].err = "channel closed"
              /\ channel = "dead"

\* C2 witness: one call is resolved after an ack, another rejected after a
\* nack
C2_Witness ==
    \E c, d \in CallIds :
        /\ calls[c].state = "resolved" /\ calls[c].cb = "ack"
        /\ calls[d].state = "rejected" /\ calls[d].cb = "nack"

\* call c is over: it threw, or its promise is settled
Over(c) == calls[c].state # "pending"

Failed(c) == calls[c].state \in {"threw", "rejected"}

\* the one point of call c, when it has exactly one
PointOf(c) == reports[CHOOSE r \in ReportsFor(c) : TRUE]

GoodPoint(c) ==
    /\ Cardinality(ReportsFor(c)) = 1
    /\ PointOf(c).error = (IF Failed(c) THEN "true" ELSE "false")
    /\ PointOf(c).routingKeys = 1 + calls[c].nCC

\* C3 as stated: with a drain configured, every call of a publish method
\* records exactly one point, whether it succeeds or fails, with error true
\* exactly when it failed and routingKeys = 1 + the number of CC keys.
C3_Stated == drain => \A c \in CallIds : Over(c) => GoodPoint(c)

\* C3 as amended: with a drain configured, a call records exactly one point
\* when its confirm callback fires, with error true exactly when the callback
\* reported an error and routingKeys = 1 + the number of CC keys; a call
\* whose callback has not fired (it threw before channel.publish, or
\* channel.publish threw, or the broker has not answered) records none.
\* Without a drain nothing is recorded.
C3_OnePointPerConfirm ==
    /\ drain =>
          \A c \in CallIds :
              /\ calls[c].cb # "none" => (GoodPoint(c) /\ Settled(c))
              /\ calls[c].cb = "none" => ReportsFor(c) = {}
    /\ ~drain => reports = <<>>
    /\ \A r \in 1..Len(reports) : reports[r].call \in CallIds

\* C3 witness: with a drain, a call with one CC key was answered by a nack and
\* has its point, while another call that threw has none
C3_Witness ==
    /\ drain
    /\ \E c, d \in CallIds :
          /\ calls[c].cb = "nack" /\ calls[c].nCC = 1 /\ GoodPoint(c)
          /\ calls[d].state = "threw" /\ ReportsFor(d) = {}

\* C5: whatever 'error' events its channel and its connection emit, the
\* Publisher delivers the fault to its 'error' listeners once, never twice.
C5_FaultDeliveredOnce == emitted <= 1

\* C6: once the Publisher has emitted 'error', every later call of a publish
\* method fails and makes no channel.publish.
C6_DeadAfterFault ==
    [][ (emitted > 0 /\ Len(calls') > Len(calls)) =>
            /\ published' = published
            /\ calls'[Len(calls')].state \in {"threw", "rejected"} ]_vars

----------------------------------------------------------------------------
(* Properties of the routing-key encoding *)

RECURSIVE Split(_, _, _)
\* String.prototype.split('.') of s from position i on, cur being the
\* segment read so far: one segment more than there are '.' in s
Split(s, i, cur) ==
    IF i > Len(s) THEN <<cur>>
    ELSE IF s[i] = "." THEN <<cur>> \o Split(s, i + 1, <<>>)
    ELSE Split(s, i + 1, Append(cur, s[i]))

\* what the documentation of declare() promises for a field: the constant
\* if it has one, '_' for an optional field without a value, else the value
ExpectedSegment(key, mapping) ==
    IF key.constant # <<>> THEN key.constant
    ELSE IF key.required # "true" /\ mapping[key.name].t \in {"undefined", "null"}
        THEN <<"_">>
    ELSE mapping[key.name].s

\* the one call of SpecEncode was given a mapping and reached channel.publish
AcceptedMapping ==
    /\ Len(calls) = 1
    /\ calls[1].state # "threw"
    /\ arg.routingKey.t = "object"
    /\ MultipleWordsFields(EntryOf(1).routingKey) = {}

SegmentsMatch ==
    LET keys     == EntryOf(1).routingKey
        segments == Split(published[1].routingKey, 1, <<>>)
    IN  /\ Len(segments) = Len(keys)
        /\ \A i \in 1..Len(keys) :
              segments[i] = ExpectedSegment(keys[i], arg.routingKey.m)

\* C10 as stated: for a declaration without a multipleWords field and a
\* mapping for which the publish is accepted, the routing key split on '.'
\* has as many segments as there are fields, segment i being the value
\* encoded for field i.
C10_Stated == AcceptedMapping => SegmentsMatch

\* C10 as amended: the same, for a declaration with at least one
\* routing-key field (with none the key is '', which splits into one empty
\* segment).
C10_SegmentsPerField ==
    (AcceptedMapping /\ Len(EntryOf(1).routingKey) >= 1) => SegmentsMatch

\* C10 witness: a key of two segments, a value and the '_' of an optional
\* field left out, was published for a declaration of two fields
C10_Witness ==
    /\ AcceptedMapping
    /\ Len(EntryOf(1).routingKey) = 2
    /\ SegmentsMatch
    /\ published[1].routingKey = <<"v", ".", "_">>

\* the one call of SpecEncode was given a mapping and reached channel.publish
EncodedFromMapping ==
    /\ Len(calls) = 1
    /\ calls[1].state # "threw"
    /\ arg.routingKey.t = "object"

\* the fields as they were written, and as the Publisher's method reads them
WrittenFields == arg.declaration.routingKey
EncodeFieldIds == 1..Len(WrittenFields)

\* The segment of field i in the published key: the words are joined by '.',
\* and only the one multipleWords field, if any, may hold '.' itself, so the
\* fields before it are counted from the front and those after it from the
\* back
SegmentOf(i) ==
    LET keys  == EntryOf(1).routingKey
        segs  == Split(published[1].routingKey, 1, <<>>)
        extra == Len(segs) - Len(keys)
        mw    == MultipleWordsFields(keys)
    IN  IF \A j \in mw : i < j THEN segs[i]
        ELSE IF i \in mw THEN Join(SubSeq(segs, i, i + extra), 1)
        ELSE segs[i + extra]

\* field i is optional and has no constant
OptionalPlain(i) ==
    WrittenFields[i].required # "true" /\ WrittenFields[i].constant = <<>>

\* the value the mapping supplies for field i
Supplied(i) == arg.routingKey.m[WrittenFields[i].name]

\* C11 as stated: for an optional field without a constant for which the
\* mapping supplies no value (absent, null or empty), the encoded segment is
\* exactly '_'.
C11_Stated ==
    EncodedFromMapping =>
        \A i \in EncodeFieldIds :
            (/\ OptionalPlain(i)
             /\ \/ Supplied(i).t \in {"undefined", "null"}
                \/ Supplied(i) = Word("string", <<>>))
            => SegmentOf(i) = <<"_">>

\* C11 as amended: for an optional field without a constant for which the
\* mapping supplies no value (absent or null), the encoded segment is
\* exactly '_'.
C11_PlaceholderWhenAbsent ==
    EncodedFromMapping =>
        \A i \in EncodeFieldIds :
            (OptionalPlain(i) /\ Supplied(i).t \in {"undefined", "null"})
            => SegmentOf(i) = <<"_">>

\* C11 witness: a key was published whose first field has a value and whose
\* second, optional and given null, is '_'
C11_Witness ==
    /\ EncodedFromMapping
    /\ Len(WrittenFields) = 2
    /\ OptionalPlain(2)
    /\ Supplied(2).t = "null"
    /\ Supplied(1) = Word("string", <<"v">>)
    /\ SegmentOf(2) = <<"_">>
    /\ published[1].routingKey = <<"v", ".", "_">>

\* the declaration as the Publisher of SpecEncode holds it
EncodeEntry == heap[pubEntries[1]]

\* field i was written with a constant and no maxSize
ConstantNoMaxSize(i) ==
    WrittenFields[i].constant # <<>> /\ WrittenFields[i].maxSize = 0

\* C12: for a field declared with a constant and no maxSize, declare() sets
\* maxSize to the constant's length, and in every key encoded from a mapping
\* the field's segment is the constant, whatever the mapping supplies.
C12_ConstantField ==
    \A i \in EncodeFieldIds :
        ConstantNoMaxSize(i) =>
            /\ EncodeEntry.routingKey[i].maxSize = Len(WrittenFields[i].constant)
            /\ EncodedFromMapping => SegmentOf(i) = WrittenFields[i].constant

\* C12 witness: the field with constant 'v1' and no maxSize has maxSize 2,
\* the mapping supplies another value for it, and the key published is 'v1'
C12_Witness ==
    /\ EncodedFromMapping
    /\ Len(WrittenFields) = 1
    /\ ConstantNoMaxSize(1)
    /\ EncodeEntry.routingKey[1].maxSize = 2
    /\ Supplied(1) = Word("string", <<"v">>)
    /\ published[1].routingKey = <<"v", "1">>

----------------------------------------------------------------------------
(* Properties of a publish call that cannot be encoded *)

\* the value that results for a key from a mapping is a string: a constant,
\* the placeholder of an optional key left out, a string, or a number made
\* a string
ResultIsString(key, mapping) ==
    \/ key.constant # <<>>
    \/ key.required # "true" /\ mapping[key.name].t \in {"undefined", "null"}
    \/ mapping[key.name].t \in {"string", "number"}

\* the value that results for a key is not a string, is longer than the
\* key's maxSize, or holds '.' while the key is not multipleWords
BadValue(key, mapping) ==
    \/ ~ResultIsString(key, mapping)
    \/ Len(ExpectedSegment(key, mapping)) > key.maxSize
    \/ HasDot(ExpectedSegment(key, mapping)) /\ key.multipleWords # "true"

\* CCBuilder returned no array, or the mapping returned by routingKeyBuilder
\* gives a bad value to some field of entry e
BadCall(e, routingKey, CCs) ==
    \/ ~IsArray(CCs)
    \/ /\ routingKey.t = "object"
       /\ \E i \in 1..Len(heap[pubEntries[e]].routingKey) :
             BadValue(heap[pubEntries[e]].routingKey[i], routingKey.m)

\* what a call that fails on its own leaves behind: its own record, of a
\* call that threw; the earlier calls, the channel.publish calls made, the
\* points, the channel and the connection are as they were
OnlyThatCallFailed ==
    /\ Len(calls') = Len(calls) + 1
    /\ SubSeq(calls', 1, Len(calls)) = calls
    /\ calls'[Len(calls')].state = "threw"
    /\ published' = published
    /\ reports' = reports
    /\ <<pc, connection, channel, emitted>>' = <<pc, connection, channel, emitted>>

\* C13: a publish call for which CCBuilder returns no array, or whose mapping
\* gives some field a value that is not a string, is longer than maxSize, or
\* holds '.' while the field is not multipleWords, fails, makes no
\* channel.publish and affects nothing but itself: a step in which a call is
\* made either leaves only the record of a call that threw, or is not the
\* step of any such call.
C13_BadCallFailsAlone ==
    [][ Len(calls') > Len(calls) =>
          \/ OnlyThatCallFailed
          \/ \A e \in 1..Len(pubEntries), message \in Messages,
                routingKey \in RoutingKeys, CCs \in CCLists,
                throws \in BOOLEAN :
                  BadCall(e, routingKey, CCs) =>
                      ~PublishCall(e, message, routingKey, CCs, throws) ]_vars

\* C13 witness: a first call threw on a word longer than maxSize, and the
\* call made after it was published and acknowledged
C13_Witness ==
    /\ Len(calls) = 2
    /\ calls[1].state = "threw"
    /\ calls[1].err = "longer than maxSize"
    /\ PublishedFor(1) = {}
    /\ calls[2].state = "resolved"
    /\ calls[2].cb = "ack"

----------------------------------------------------------------------------
(* Properties of reference() *)

\* title or description is missing from the options reference(given) works on
TitleOrDescriptionMissing(given) ==
    \/ Default2(given.title, options.title) \in {UndefinedT, <<>>}
    \/ Default2(given.description, options.description) \in {UndefinedT, <<>>}

\* the properties of a routing-key field that the reference shows
DocumentedProperties ==
    {"name", "summary", "constant", "multipleWords", "required"}

\* entry e of a document describes the declaration d
Describes(e, d) ==
    /\ e.exchange = d.exchange
    /\ e.name = d.name
    /\ e.title = d.title
    /\ e.description = d.description
    /\ e.schema = d.schema
    /\ Len(e.routingKey) = Len(d.routingKey)
    /\ \A j \in 1..Len(d.routingKey) :
          /\ DOMAIN e.routingKey[j] = DocumentedProperties
          /\ \A k \in DocumentedProperties :
                e.routingKey[j][k] = d.routingKey[j][k]

\* the document doc has one entry per declaration of decls, in their order
DescribesAll(doc, decls) ==
    /\ Len(doc.entries) = Len(decls)
    /\ \A i \in 1..Len(decls) : Describes(doc.entries[i], decls[i])

\* C17: reference() returns a document with one entry per registered
\* declaration, in declaration order, carrying its exchange, name, title,
\* description and schema, and of each routing-key field only name, summary,
\* constant, multipleWords and required; it fails when title or description
\* is missing from the effective options.
C17_ReferenceDocument ==
    [][ \A given \in ReferenceInputs, valid \in BOOLEAN :
          ReferenceCall(given, valid) =>
            /\ TitleOrDescriptionMissing(given) => document'.err # ""
            /\ document'.err = "" => DescribesAll(document', StoredValues) ]_vars

\* C17 witness: the document returned last describes the two declarations in
\* the registry, the second with its two routing-key fields
C17_Witness ==
    /\ last.op = "reference"
    /\ document.err = ""
    /\ Len(entries) = 2
    /\ DescribesAll(document, StoredValues)
    /\ Len(document.entries[2].routingKey) = 2

----------------------------------------------------------------------------
(* Properties of connect() given options (SpecConnect) *)

\* the options connect(arg) and reference(arg) work on, property by property
Effective(k) == Default2(arg[k], options[k])

\* username and password are both given
FullCredentials ==
    /\ arg.credentials # UndefinedT
    /\ TruthyT(Username(arg.credentials))
    /\ TruthyT(Password(arg.credentials))

\* the prefix of the exchange names: the exchangePrefix option, behind
\* 'exchange/<username>/' when full credentials are given
EffectivePrefix ==
    IF FullCredentials
    THEN <<"e", "x", "/">> \o Username(arg.credentials) \o <<"/">>
            \o Effective("exchangePrefix")
    ELSE Effective("exchangePrefix")

\* every declared exchange has been asserted, as a topic exchange named
\* prefix + exchange
AllAsserted ==
    /\ Len(asserts) = Len(entries)
    /\ \A i \in 1..Len(entries) :
          /\ asserts[i].state = "ok"
          /\ asserts[i].type = "topic"
          /\ asserts[i].name = EffectivePrefix \o StoredValues[i].exchange

\* C14: connect() yields a Publisher only after, in this order, the
\* connection is opened, a confirm channel is created on it and every
\* declared exchange is asserted as a topic exchange named exchangePrefix +
\* exchange; if the connection, the channel creation or one assertion fails,
\* connect() rejects and no Publisher is ever constructed.
C14_ConnectInOrder ==
    [][ /\ pc' = "ready" =>
              (connection' = "open" /\ channel' = "open" /\ AllAsserted')
        /\ channel' # "none" => connection' = "open"
        /\ asserts' # <<>> => channel' = "open"
        /\ (\E i \in 1..Len(asserts') : asserts'[i].state = "failed")
              => pc' = "rejected"
        /\ pc = "rejected" => pc' = "rejected" ]_vars

\* C14 witness: a Publisher was constructed for a registry of two
\* declarations, with a pulse prefix
C14_Witness ==
    /\ pc = "ready"
    /\ FullCredentials
    /\ Len(entries) = 2
    /\ AllAsserted

\* neither a connection string nor full credentials are given
NoAddress == ~TruthyT(Effective("connectionString")) /\ ~FullCredentials

\* C15: connect() called with neither a connection string nor full
\* credentials fails immediately: no connection is opened, no exchange is
\* asserted, no Publisher is returned.
C15_NoAddressNoConnect ==
    NoAddress =>
        /\ pc = "none"
        /\ connection = "none"
        /\ channel = "none"
        /\ asserts = <<>>
        /\ last.op = "connect" =>
              last.err = "ConnectionString or credentials must be provided"

\* C15 witness: connect() was called with a username only and has failed
C15_Witness ==
    /\ NoAddress
    /\ TruthyT(Username(arg.credentials))
    /\ last.op = "connect"
    /\ last.err = "ConnectionString or credentials must be provided"
    /\ pc = "none"

\* C16: for the same registry configuration and the same options, the
\* exchangePrefix that reference() writes into the document is the prefix
\* connect() uses for the exchanges, whenever connect() is accepted.
C16_SamePrefix ==
    (pc # "none" /\ last.op = "reference" /\ document.err = "") =>
        document.exchangePrefix = pubPrefix

----------------------------------------------------------------------------
(* Properties of close() and of calls in flight *)

\* C18: close() closes the connection and settles no publish in flight: a
\* call whose confirm callback has not fired is left as it is by close(), and
\* stops being pending only when its callback is invoked.
C18_CloseSettlesNothing ==
    [][ /\ Close => (connection' = "closed" /\ calls' = calls)
        /\ \A c \in CallIds :
              (calls[c].state = "pending" /\ calls'[c].state # "pending")
                  => (calls[c].cb = "none" /\ calls'[c].cb # "none") ]_vars

\* C18 witness: the connection was closed by close() while a call was in
\* flight, and the call is still pending
C18_Witness ==
    /\ connection = "closed"
    /\ emitted = 0
    /\ \E c \in CallIds : calls[c].state = "pending" /\ calls[c].cb = "none"

\* C19: with any number of calls in flight, the acknowledgment of one
\* message, positive or negative, settles the promise of that message's call
\* and no other, whatever the order of the confirmations.
C19_OwnAcknowledgment ==
    [][ \A c \in CallIds, ok \in BOOLEAN :
          Confirm(c, ok) =>
            /\ calls'[c].state = (IF ok THEN "resolved" ELSE "rejected")
            /\ Len(calls') = Len(calls)
            /\ \A d \in CallIds \ {c} : calls'[d] = calls[d] ]_vars

\* C19 witness: of two calls in flight the second was acknowledged first;
\* the first is still pending
C19_Witness ==
    /\ Len(calls) = 2
    /\ calls[1].state = "pending"
    /\ calls[1].cb = "none"
    /\ calls[2].state = "resolved"
    /\ calls[2].cb = "ack"
    /\ PublishedFor(1) # {}

----------------------------------------------------------------------------
(* Properties of a declaration after declare() *)

\* the declarations a Publisher made by a connect() called now would use
ConnectWouldUse == Deref(CloneDeepHeap(heap, entries), CloneDeepIds(entries))

\* the document a reference() called now would return
ReferenceWouldReport == reference(NoOptions, options, StoredValues, TRUE)

\* C20: once declare(decl) has returned successfully, later changes the
\* caller makes to the object decl change neither what reference() reports
\* for the declaration nor what a Publisher connected afterwards uses for it.
C20_ImmutableOnceDeclared ==
    [][ \A id \in CallerObjects, to \in Changes :
          (CallerChanges(id, to) /\ \E i \in 1..Len(entries) : entries[i] = id)
            => /\ ReferenceWouldReport' = ReferenceWouldReport
               /\ ConnectWouldUse' = ConnectWouldUse ]_vars

----------------------------------------------------------------------------
(* Properties of the stored schema and of a declare() that fails *)

\* the declaration stored last
NewestEntry == heap[entries[Len(entries)]]

\* C21: the schema of a stored declaration is the schema prefix configured
\* when it was declared followed by the schema the caller supplied, the
\* prefix applied exactly once: a declare() that stores a declaration stores
\* it with prefix + supplied schema, and no later declare() or configure(),
\* failed declare() calls included, changes the schema of a stored one.
C21_SchemaPrefixedOnce ==
    [][ /\ \A i \in 1..Len(entries) :
              StoredValues'[i].schema = StoredValues[i].schema
        /\ \A obj \in NewDeclarations :
              (DeclareNew(obj, MaxObjects) /\ last'.err = "")
                  => NewestEntry'.schema = options.schemaPrefix \o obj.schema
      ]_vars

\* C25: a declare() call that fails leaves the registry's declarations
\* exactly as they were before the call: the same declarations, in the same
\* order, each with the content it had.
C25_FailedDeclareChangesNothing ==
    [][ (last'.op = "declare" /\ last'.err # "")
            => (entries' = entries /\ StoredValues' = StoredValues) ]_vars

----------------------------------------------------------------------------
(* Properties of the routing key handed to channel.publish *)

\* C22: every routing key that a publish method hands to channel.publish is
\* at most 255 long, for every declaration accepted by declare() and every
\* value returned by routingKeyBuilder.
C22_KeyWithinLimit ==
    \A m \in 1..Len(published) :
        Len(published[m].routingKey) <= RoutingKeyLimit

\* the one call of SpecEncode was made and routingKeyBuilder returned a string
CalledWithString == Len(calls) = 1 /\ arg.routingKey.t = "string"

\* C23: when routingKeyBuilder returns a string, the publish method hands
\* exactly that string to channel.publish as the routing key, whatever the
\* fields of the declaration are: no constant, no '_', no maxSize and no '.'
\* check is applied to it.
C23_StringVerbatim ==
    CalledWithString =>
        /\ calls[1].state # "threw"
        /\ Len(published) = 1
        /\ published[1].routingKey = arg.routingKey.s

\* C23 witness: 'k..k' was published as it is for a declaration whose one
\* field is required, not multipleWords and of maxSize 1
C23_Witness ==
    /\ CalledWithString
    /\ arg.routingKey.s = <<"k", ".", ".", "k">>
    /\ Len(EncodeEntry.routingKey) = 1
    /\ EncodeEntry.routingKey[1].maxSize = 1
    /\ EncodeEntry.routingKey[1].multipleWords = "false"
    /\ EncodeEntry.routingKey[1].required = "true"
    /\ published[1].routingKey = <<"k", ".", ".", "k">>

----------------------------------------------------------------------------
(* Properties of the order of the publish calls *)

\* call c was accepted: it got as far as channel.publish
AcceptedCall(c) == calls[c].state # "threw"

\* publication m is the message and the exchange of the call it belongs to
OfItsCall(m) ==
    LET c == published[m].call
    IN  /\ c \in CallIds
        /\ AcceptedCall(c)
        /\ published[m].payloadSize = calls[c].message.size
        /\ published[m].exchange = pubPrefix \o EntryOf(c).exchange

\* C24: a publish method builds, validates, encodes and hands its message to
\* channel.publish within the call itself: in every state each accepted call
\* has its one channel.publish already, a call that threw has none, and the
\* messages were handed to the channel in the order of the calls.
C24_PublishedInCallOrder ==
    /\ \A c \in CallIds :
          Cardinality(PublishedFor(c)) = (IF AcceptedCall(c) THEN 1 ELSE 0)
    /\ \A m \in 1..Len(published) : OfItsCall(m)
    /\ \A m, n \in 1..Len(published) :
          m < n => published[m].call < published[n].call

\* C24 witness: two accepted calls, of different methods and with different
\* routing keys, neither confirmed yet, were handed over first and second
C24_Witness ==
    /\ Len(calls) = 2
    /\ Len(published) = 2
    /\ calls[1].entry # calls[2].entry
    /\ published[1].routingKey # published[2].routingKey
    /\ calls[1].state = "pending" /\ calls[2].state = "pending"
    /\ published[1].call = 1 /\ published[2].call = 2
    /\ OfItsCall(1) /\ OfItsCall(2)

----------------------------------------------------------------------------
(* Properties of the Influx drain *)

FlushIds == 1..Len(flushes)
PointIds == 1..points

RECURSIVE SumLen(_, _)
\* the number of points in the series S of a buffer
SumLen(pending, S) ==
    IF S = {} THEN 0
    ELSE LET s == CHOOSE s \in S : TRUE
         IN  Len(pending[s]) + SumLen(pending, S \ {s})

\* the number of points buffered over all series
Buffered == SumLen(pendingPoints, Series)

\* C26: for a drain with maxPendingPoints >= 1, pendingPoints() is below
\* maxPendingPoints after every addPoint(), and in every state it is the
\* number of points buffered over all series.
C26_PendingBelowMax ==
    influxOptions.maxPendingPoints >= 1 =>
        /\ nbPendingPoints = Buffered
        /\ nbPendingPoints < influxOptions.maxPendingPoints

\* C26 witness: with maxPendingPoints = 2, the second addPoint() flushed the
\* two points, one of each series, and nothing is pending
C26_Witness ==
    /\ influxOptions.maxPendingPoints = 2
    /\ points = 2
    /\ nbPendingPoints = 0
    /\ Buffered = 0
    /\ \E f \in FlushIds :
          /\ flushes[f].by = "addPoint"
          /\ Len(flushes[f].payload["s"]) = 1
          /\ Len(flushes[f].payload["t"]) = 1

\* the number of times point p occurs in a buffer or payload
Occurrences(pending, p) ==
    Cardinality(UNION { { <<s, i>> : i \in { j \in DOMAIN pending[s] :
                                                pending[s][j] = p } } :
                        s \in Series })

\* the flushes whose payload holds point p
FlushesOf(p) == { f \in FlushIds : Occurrences(flushes[f].payload, p) > 0 }

\* the request of flush f failed
HttpFailed(f) == flushes[f].http \in {"not ok", "error"}

\* C27: for any interleaving of addPoint(), flush() and close() calls and
\* HTTP completions, every point added is either still buffered or in the
\* payload of exactly one flush, never both and never in two, and a flush
\* holds only points added before it was called; a failed submission is
\* swallowed: its points are not put back, and the promise of the flush is
\* not rejected with the failure.
C27_EachPointSentOnce ==
    /\ \A p \in PointIds :
          /\ Occurrences(pendingPoints, p) + Cardinality(FlushesOf(p)) = 1
          /\ \A f \in FlushesOf(p) :
                Occurrences(flushes[f].payload, p) = 1 /\ p <= flushes[f].at
    /\ \A f \in FlushIds :
          HttpFailed(f) =>
              /\ flushes[f].err \notin {"not ok", "error"}
              /\ ~flushes[f].restart => flushes[f].state = "resolved"

\* C27 witness: the request of a first flush, called by the owner with
\* point 1, failed and the flush is resolved; point 2, added while that
\* request was outstanding, is in the payload of the second flush
C27_Witness ==
    /\ Len(flushes) = 2
    /\ points = 2
    /\ flushes[1].by = "caller" /\ ~flushes[1].restart
    /\ flushes[1].at = 1
    /\ flushes[1].http = "not ok"
    /\ flushes[1].state = "resolved"
    /\ FlushesOf(1) = {1}
    /\ FlushesOf(2) = {2}
    /\ flushes[2].state = "sending"
    /\ Buffered = 0

\* flush f, made with restart = true, completes in this step
RestartCompletes(f) ==
    /\ flushes[f].restart
    /\ flushes[f].state \in {"sending", "restarting"}
    /\ flushes'[f].state \notin {"sending", "restarting"}

\* C28: when a flush(true) completes, a new flush timer is set and its
\* handle is recorded in the drain.
C28_RestartRecordsTimer ==
    [][ \A f \in FlushIds :
          RestartCompletes(f) =>
              /\ flushTimeout' \in timers'
              /\ flushTimeout' \notin timers ]_vars

\* C29: at most one flush timer is outstanding, and it is the one recorded
\* in _flushTimeout.
C29_OneTimerRecorded ==
    /\ Cardinality(timers) <= 1
    /\ \A h \in timers : h = flushTimeout

\* close() was called as flush f, the promise it returned has resolved, and
\* nothing has been called on the drain since
ClosedAndLeftAlone(f) ==
    /\ flushes[f].by = "close"
    /\ flushes[f].state = "resolved"
    /\ points = flushes[f].at
    /\ \A g \in FlushIds : g > f => flushes[g].by = "timer"

\* C30: once the promise returned by close() has resolved and nothing more
\* is called on the drain, pendingPoints() is 0, no flush has been triggered
\* by a timer since, and no timer is left that would trigger one.
C30_ClosedStaysQuiet ==
    \A f \in FlushIds :
        ClosedAndLeftAlone(f) =>
            /\ nbPendingPoints = 0
            /\ Len(flushes) = f
            /\ timers = {}

----------------------------------------------------------------------------
(* Properties of the response timer and of the handler timer *)

\* the calls of the reporter made for request r
ReporterCallsFor(r) ==
    { k \in 1..Len(responsePoints) : responsePoints[k].request = r }

\* 'finish' or 'close' has fired for request r
EventFired(r) == ~responses[r].finish \/ ~responses[r].close

\* C31: the middleware sends at most one point to the reporter per request,
\* whatever the order and combination of 'finish' and 'close': one when
\* either has fired and the point could be built, never two; and no error
\* raised while building or reporting the point gets out of send().
C31_OnePointNoEscape ==
    /\ \A r \in 1..Len(responses) :
          /\ Cardinality(ReporterCallsFor(r)) <= 1
          /\ (EventFired(r) /\ ~responses[r].malformed)
                => Cardinality(ReporterCallsFor(r)) = 1
    /\ escaped = 0

\* the points reported for call i of the wrapped handler
HandlerPointsFor(i) ==
    { k \in 1..Len(handlerPoints) : handlerPoints[k].message = i }

HandlerFinished(i) == handled[i].handler # "pending"
HandlerFailed(i)   == handled[i].handler \in {"threw", "rejected"}

\* C32: the wrapped handler reports exactly one point per handled message,
\* after the handler has finished, with error = 'true' exactly when the
\* handler failed, and the wrapper's outcome is the handler's: it fails when
\* the handler failed and resolves when it succeeded.
C32_OnePointPerMessage ==
    \A i \in 1..Len(handled) :
        /\ HandlerPointsFor(i) # {} => HandlerFinished(i)
        /\ handled[i].wrapper # "pending" =>
              /\ Cardinality(HandlerPointsFor(i)) = 1
              /\ \A k \in HandlerPointsFor(i) :
                    handlerPoints[k].error =
                        (IF HandlerFailed(i) THEN "true" ELSE "false")
              /\ HandlerFailed(i) <=> handled[i].wrapper \in {"rejected", "threw"}

====
